---- MODULE Spec2Model ----
(***************************************************************************)
(* Grading engine and match reconciliation of nobarmeriah-backend.        *)
(*                                                                         *)
(* Spec       : the grading engine (gradingService.js) driven by the cron  *)
(*              job, the manual trigger and the single-match entry point,  *)
(*              interleaved at every await.                                *)
(* SpecStats  : updateUserStatsPerMatch applied call after call to one     *)
(*              profile row.                                               *)
(* SpecPoints : getMatchResult, the correctness tests and calculatePoints  *)
(*              applied to drawn provider answers and predictions.         *)
(* SpecSeq    : Spec with the runs one after the other.                    *)
(* SpecCron   : the grading cron job alone, tick after tick, with fairness.*)
(* SpecSched  : the four flags of the scheduler and its cron callbacks.    *)
(* SpecSync   : matchSync.js and cleanupOldMatches, operation by operation,*)
(*              on the matches table, with and without a configured store. *)
(* SpecSchedFair : SpecSched where every engine call returns or throws.    *)
(* SpecDup    : SpecSeq on tables where one user holds two predictions of  *)
(*              each kind on one match.                                    *)
(* SpecStuck  : the grading cron job beside fixStuckMatches acting on a    *)
(*              stored live row of a match with predictions.               *)
(* SpecOverlap: a daily sync run and a live sync run interleaved at their  *)
(*              awaits while the provider's data change.                   *)
(***************************************************************************)
EXTENDS Integers, Sequences, FiniteSets, TLC

\* ------------------------------------------------------------------ bounds

\* failures (store errors, provider errors) injected in one behaviour of Spec
MaxFails == 1
\* goals per side the provider reports in SpecPoints
MaxGoals == 1
\* calls of updateUserStatsPerMatch SpecStats follows
MaxCalls == 3
\* longest streak a profile of SpecStats starts with
MaxStart == 9

\* engine calls per job type the cron ticks of SpecSched make
MaxTicks == 2

\* the last hour the clock of SpecSync reaches
MaxClock == 6

\* a nullable number of a profile row that holds null
NULL == -1

\* ------------------------------------------------------------ league names

UpperChars == <<"A","B","C","D","E","F","G","H","I","J","K","L","M","N","O","P","Q","R","S","T","U","V","W","X","Y","Z">>
LowerChars == <<"a","b","c","d","e","f","g","h","i","j","k","l","m","n","o","p","q","r","s","t","u","v","w","x","y","z">>

BIG_LEAGUES ==
  << <<"U","E","F","A"," ","C","h","a","m","p","i","o","n","s"," ","L","e","a","g","u","e">>,
     <<"P","r","e","m","i","e","r"," ","L","e","a","g","u","e">>,
     <<"L","a"," ","L","i","g","a">>,
     <<"S","e","r","i","e"," ","A">>,
     <<"B","u","n","d","e","s","l","i","g","a">>,
     <<"L","i","g","a"," ","1">>,
     <<"E","u","r","o","p","a"," ","L","e","a","g","u","e">>,
     <<"W","o","r","l","d"," ","C","u","p">>,
     <<"E","u","r","o"," ","C","h","a","m","p","i","o","n","s","h","i","p">> >>

\* league names the provider is made to report; <<>> stands for a missing name
LgNone == <<>>
LgPremier == <<"P","r","e","m","i","e","r"," ","L","e","a","g","u","e">>
LgPremierUpper == <<"P","R","E","M","I","E","R"," ","L","E","A","G","U","E">>
LgLigaOneId == <<"B","R","I"," ","L","i","g","a"," ","1">>
LgLigue == <<"L","i","g","u","e"," ","1">>
LgSerieB == <<"S","e","r","i","e"," ","B">>
LgLaLigaTwo == <<"l","a"," ","l","i","g","a"," ","2">>
LgChampionship == <<"C","h","a","m","p","i","o","n","s","h","i","p">>
LgLiga == <<"L","i","g","a">>

LeagueNames ==
  { LgNone, LgPremier, LgPremierUpper, LgLigaOneId, LgLigue, LgSerieB,
    LgLaLigaTwo, LgChampionship, LgLiga }

\* String.prototype.toLowerCase, one character
UpperSet == {UpperChars[k] : k \in 1..Len(UpperChars)}

lowerChar(c) ==
  IF c \in UpperSet
    THEN LowerChars[CHOOSE k \in 1..Len(UpperChars) : UpperChars[k] = c]
    ELSE c

toLowerCase(s) == [i \in 1..Len(s) |-> lowerChar(s[i])]

\* String.prototype.includes
includes(s, t) ==
  \E i \in 1..(Len(s) - Len(t) + 1) : SubSeq(s, i, i + Len(t) - 1) = t

\* league.toLowerCase() for every league of BIG_LEAGUES
lowerBigLeagues == [k \in 1..Len(BIG_LEAGUES) |-> toLowerCase(BIG_LEAGUES[k])]

\* the league test without toLowerCase
isBigMatch_caseSensitive(leagueName) ==
  IF leagueName = <<>>
    THEN FALSE
    ELSE \E k \in 1..Len(BIG_LEAGUES) : includes(leagueName, BIG_LEAGUES[k])

isBigMatch(leagueName) ==
  IF leagueName = <<>>
    THEN FALSE
    ELSE \E k \in 1..Len(BIG_LEAGUES) :
           includes(toLowerCase(leagueName), lowerBigLeagues[k])

calculatePoints(predictionType, isCorrect, leagueName) ==
  IF ~isCorrect THEN 0
  ELSE IF predictionType = "winner" THEN (IF isBigMatch(leagueName) THEN 15 ELSE 10)
  ELSE IF predictionType = "score" THEN (IF isBigMatch(leagueName) THEN 25 ELSE 20)
  ELSE 0

calculateStreakBonus(streak) ==
  IF streak >= 10 THEN 25
  ELSE IF streak >= 5 THEN 10
  ELSE IF streak >= 3 THEN 5
  ELSE 0

\* ---------------------------------------------------------- provider answer

finishedStatuses == {"FT", "AET", "PEN"}

NoResult ==
  [isNull |-> TRUE, status |-> "", homeScore |-> 0, awayScore |-> 0,
   winner |-> "", leagueName |-> <<>>]

\* the winner with the tie given to the home side
winnerOf_tieIsHome(home, away) ==
  IF home >= away THEN "home" ELSE "away"

\* the winner getMatchResult derives from the goals
winnerOf(home, away) ==
  IF home > away THEN "home"
  ELSE IF away > home THEN "away"
  ELSE "draw"

\* getMatchResult without the test of the finished statuses
getMatchResult_anyStatus(result) ==
  IF ~result.success \/ Len(result.data) = 0 THEN NoResult
  ELSE LET match == result.data[1] IN
    [isNull |-> FALSE, status |-> match.short,
     homeScore |-> match.home, awayScore |-> match.away,
     winner |-> IF match.home > match.away THEN "home"
                ELSE IF match.away > match.home THEN "away" ELSE "draw",
     leagueName |-> match.league]

\* result: the envelope of apiFootball.getMatchById, data a sequence of fixtures
getMatchResult(result) ==
  IF ~result.success \/ Len(result.data) = 0 THEN NoResult
  ELSE LET match == result.data[1] IN
    IF match.short \notin finishedStatuses THEN NoResult
    ELSE [isNull |-> FALSE, status |-> match.short,
          homeScore |-> match.home, awayScore |-> match.away,
          winner |-> winnerOf(match.home, match.away),
          leagueName |-> match.league]

\* ------------------------------------------------------- correctness tests

winnerIsCorrect(prediction, matchResult) ==
  prediction.predicted_result = matchResult.winner

scoreIsCorrect(prediction, matchResult) ==
  /\ prediction.predicted_home_score = matchResult.homeScore
  /\ prediction.predicted_away_score = matchResult.awayScore

\* --------------------------------------------------- updateUserStatsPerMatch

\* a per-user partial result of one grading call; present = FALSE is null
NoRes == [present |-> FALSE, points |-> 0, isCorrect |-> FALSE, src |-> 0]

orZero(x) == IF x = NULL THEN 0 ELSE x

\* the streak test asking for every prediction of the match to be correct
hasCorrectPrediction_all(winnerResult, scoreResult) ==
  (winnerResult.present => winnerResult.isCorrect)
    /\ (scoreResult.present => scoreResult.isCorrect)

hasCorrectPrediction(winnerResult, scoreResult) ==
  (winnerResult.present /\ winnerResult.isCorrect)
    \/ (scoreResult.present /\ scoreResult.isCorrect)

predictionsMade(winnerResult, scoreResult) ==
  (IF winnerResult.present THEN 1 ELSE 0) + (IF scoreResult.present THEN 1 ELSE 0)

correctPredictions(winnerResult, scoreResult) ==
  (IF winnerResult.present /\ winnerResult.isCorrect THEN 1 ELSE 0)
    + (IF scoreResult.present /\ scoreResult.isCorrect THEN 1 ELSE 0)

totalPoints(winnerResult, scoreResult) ==
  (IF winnerResult.present THEN winnerResult.points ELSE 0)
    + (IF scoreResult.present THEN scoreResult.points ELSE 0)

newStreak(profile, winnerResult, scoreResult) ==
  IF hasCorrectPrediction(winnerResult, scoreResult)
    THEN orZero(profile.current_streak) + 1
    ELSE 0

\* the bonus taken from calculateStreakBonus on every correct match
streakBonus_byThreshold(profile, winnerResult, scoreResult) ==
  IF hasCorrectPrediction(winnerResult, scoreResult)
    THEN calculateStreakBonus(newStreak(profile, winnerResult, scoreResult))
    ELSE 0

streakBonus(profile, winnerResult, scoreResult) ==
  LET ns == newStreak(profile, winnerResult, scoreResult)
      oldStreak == orZero(profile.current_streak) IN
  IF ~hasCorrectPrediction(winnerResult, scoreResult) THEN 0
  ELSE IF ns = 3 /\ oldStreak < 3 THEN 5
  ELSE IF ns = 5 /\ oldStreak < 5 THEN 10
  ELSE IF ns = 10 /\ oldStreak < 10 THEN 25
  ELSE 0

Max(a, b) == IF a >= b THEN a ELSE b

\* the row updateUserStatsPerMatch writes, computed from the row it read
newProfile(profile, winnerResult, scoreResult) ==
  LET ns == newStreak(profile, winnerResult, scoreResult)
      totalPointsEarned == totalPoints(winnerResult, scoreResult)
                             + streakBonus(profile, winnerResult, scoreResult) IN
  [total_experience |-> orZero(profile.total_experience) + totalPointsEarned,
   season_points |-> orZero(profile.season_points) + totalPointsEarned,
   current_streak |-> ns,
   best_streak |-> Max(ns, orZero(profile.best_streak)),
   correct_predictions |-> orZero(profile.correct_predictions)
                             + correctPredictions(winnerResult, scoreResult),
   total_predictions |-> orZero(profile.total_predictions)
                             + predictionsMade(winnerResult, scoreResult)]

\* ------------------------------------------------------------------ state

Users == {"ana", "budi"}
Matches == {101, 102}

\* the rows of winner_predictions and score_predictions: id -> owner and match
WinnerRows == (1 :> [email |-> "ana", match_id |-> 101])
ScoreRows == (11 :> [email |-> "ana", match_id |-> 101])
               @@ (12 :> [email |-> "budi", match_id |-> 102])
WinnerIds == DOMAIN WinnerRows
ScoreIds == DOMAIN ScoreRows
RowIds == WinnerIds \cup ScoreIds

\* cron: startAutoGrading's callback; manual: a call of runManualGrading or of
\* gradeMatch made from outside the scheduler
Runs == {"cron", "manual"}

VARIABLES
  winner_predictions,  \* table: id -> row
  score_predictions,   \* table: id -> row
  profiles,            \* table: email -> row
  api,                 \* the provider's fixture per match id
  isGradingRunning,    \* the cron job's flag
  fails,               \* failures injected so far
  pc,                  \* where each run stands (the await it is suspended at)
  entry,               \* the function the run entered: "all" or "match"
  matchIds,            \* match ids the run has still to visit
  listError,           \* winnerError of getFinishedMatchesToGrade
  cur,                 \* matchId of the loop body
  matchResult,         \* result of getMatchResult for cur
  todo,                \* rows of the select not yet visited by the for loop
  winnerResults,       \* gradeWinnerPredictions' userResults
  scoreResults,        \* gradeScorePredictions' userResults
  allEmails,           \* emails the stats loop has still to visit
  email,               \* email of the updateUserStatsPerMatch call in progress
  profile,             \* the row that call read
  ret,                 \* what the run returned
  gradedAtStart,       \* history: rows already graded when the run started
  wrote,               \* history: rows the run wrote as graded
  credited,            \* history: rows whose result the run put into a profile
  notReady,            \* history: matches the provider did not report finished
                       \*          (or failed to return) when the run asked
  lost,                \* history: rows whose update failed in the run, and rows
                       \*          whose user's profile read or update failed
  gradeCount,          \* history: successful graded-writes per row
  creditCount,         \* history: profile updates that counted the row
  statsCount,          \* history: profile updates per user and match
  bonuses,             \* history: streak bonuses awarded per user
  gradedCount,         \* gradedCount of the grade*Predictions calls of the match
  correctCount,        \* correctCount of the same calls
  st_profile,          \* SpecStats: the profile row
  st_prev,             \* SpecStats: the row before the last call
  st_winner,           \* SpecStats: winnerResult of the last call
  st_score,            \* SpecStats: scoreResult of the last call
  st_outcome,          \* SpecStats: how the last call ended
  st_awards,           \* SpecStats: bonuses awarded since the streak was last 0
  st_calls,            \* SpecStats: calls made
  pt_fixture,          \* SpecPoints: the fixture the provider holds
  pt_answer,           \* SpecPoints: the kind of answer the provider gives
  pt_winner,           \* SpecPoints: the winner prediction row
  pt_score,            \* SpecPoints: the score prediction row
  pt_result,           \* SpecPoints: what getMatchResult returned
  pt_phase,            \* SpecPoints: "pending", "graded" or "skipped"
  isLiveSyncRunning,   \* SpecSched: the live sync job's flag
  isDailySyncRunning,  \* SpecSched: the daily sync job's flag
  isCleanupRunning,    \* SpecSched: the cleanup job's flag
  sc_inFlight,         \* SpecSched history: engine calls of the job in flight
  sc_calls,            \* SpecSched history: engine calls the job's ticks made
  sc_dropped,          \* SpecSched history: the job's last tick was dropped
  sc_last,             \* SpecSched history: how the job's last run ended
  supabase,            \* SpecSync: the store client of config/database, or null
  gradingClient,       \* SpecSync: what createClient gave gradingService.js
  matches,             \* SpecSync: the matches table, a set of rows
  feed,                \* SpecSync: the fixture the provider holds per match id
  clock,               \* SpecSync: the time, in hours
  op,                  \* SpecSync history: the last operation called
  returned,            \* SpecSync history: what it returned
  storeCalls,          \* SpecSync history: store calls it attempted
  threw,               \* SpecSync history: it threw
  syncWrites,          \* SpecSync history: ids the sync paths wrote
  fixed,               \* SpecSync history: the status_short the last
                       \*   fixStuckMatches wrote per id, "" where it wrote none
  lastFix,             \* SpecSync history: maxHours of the last
                       \*   fixStuckMatches, the ids it found stuck and the
                       \*   ids it reports as failed
  inSuccession,        \* SpecSync history: the last operation was a
                       \*   syncTodayMatches that saved what the provider holds
  repeat,              \* SpecSync history: the last syncTodayMatches repeated
                       \*   the call before it on the same upstream data
  sy_pc,               \* SpecOverlap: where each sync run stands
  sy_data,             \* SpecOverlap: result.data of the run's provider call
  sy_newest            \* SpecOverlap history: the run whose provider call
                       \*   was answered last

runVars == <<pc, entry, matchIds, listError, cur, matchResult, todo, winnerResults,
             scoreResults, allEmails, email, profile, ret>>
histVars == <<gradedAtStart, wrote, credited, notReady, lost, gradeCount,
              creditCount, statsCount, bonuses>>
storeVars == <<winner_predictions, score_predictions, profiles>>
countVars == <<gradedCount, correctCount>>
gradingVars == <<storeVars, api, isGradingRunning, fails, runVars, histVars,
                 countVars>>

statsVars == <<st_profile, st_prev, st_winner, st_score, st_outcome, st_awards,
               st_calls>>
pointsVars == <<pt_fixture, pt_answer, pt_winner, pt_score, pt_result, pt_phase>>

schedVars == <<isLiveSyncRunning, isDailySyncRunning, isCleanupRunning,
               sc_inFlight, sc_calls, sc_dropped, sc_last>>
overlapVars == <<sy_pc, sy_data, sy_newest>>
syncVars == <<supabase, gradingClient, matches, feed, clock, op, returned,
              storeCalls, threw, syncWrites, fixed, lastFix, inSuccession,
              repeat, overlapVars>>

vars == <<gradingVars, statsVars, pointsVars, schedVars, syncVars>>

ZeroProfile ==
  [total_experience |-> 0, season_points |-> 0, current_streak |-> 0,
   best_streak |-> 0, correct_predictions |-> 0, total_predictions |-> 0]

NoResults == [u \in Users |-> NoRes]

\* ------------------------------------------------------------------- Init

\* let gradedCount = 0, correctCount = 0 of both calls
NoCounts == [winner |-> 0, score |-> 0]

\* no run started; rows: the ids of the prediction rows
InitRunsOf(rows) ==
  /\ pc = [r \in Runs |-> "idle"]
  /\ entry = [r \in Runs |-> "all"]
  /\ matchIds = [r \in Runs |-> {}]
  /\ listError = [r \in Runs |-> FALSE]
  /\ cur = [r \in Runs |-> 0]
  /\ matchResult = [r \in Runs |-> NoResult]
  /\ todo = [r \in Runs |-> {}]
  /\ winnerResults = [r \in Runs |-> NoResults]
  /\ scoreResults = [r \in Runs |-> NoResults]
  /\ allEmails = [r \in Runs |-> {}]
  /\ email = [r \in Runs |-> ""]
  /\ profile = [r \in Runs |-> ZeroProfile]
  /\ ret = [r \in Runs |-> "none"]
  /\ gradedAtStart = [r \in Runs |-> {}]
  /\ wrote = [r \in Runs |-> {}]
  /\ credited = [r \in Runs |-> {}]
  /\ notReady = [r \in Runs |-> {}]
  /\ lost = [r \in Runs |-> {}]
  /\ gradeCount = [p \in rows |-> 0]
  /\ creditCount = [p \in rows |-> 0]
  /\ statsCount = [u \in Users |-> [m \in Matches |-> 0]]
  /\ gradedCount = [r \in Runs |-> NoCounts]
  /\ correctCount = [r \in Runs |-> NoCounts]
  /\ bonuses = [u \in Users |-> 0]

InitRuns == InitRunsOf(RowIds)

\* the two prediction tables, all rows pending
InitStoreOf(winnerRows, scoreRows, pr, ph) ==
  /\ winner_predictions =
       [p \in DOMAIN winnerRows |->
          [email |-> winnerRows[p].email, match_id |-> winnerRows[p].match_id,
           predicted_result |-> pr[p], status |-> "pending",
           is_correct |-> FALSE, points_earned |-> 0, actual_result |-> ""]]
  /\ score_predictions =
       [p \in DOMAIN scoreRows |->
          [email |-> scoreRows[p].email, match_id |-> scoreRows[p].match_id,
           predicted_home_score |-> ph[p], predicted_away_score |-> 0,
           status |-> "pending", is_correct |-> FALSE, points_earned |-> 0,
           actual_home_score |-> NULL, actual_away_score |-> NULL]]
  /\ profiles = [u \in Users |->
                   IF u = "ana"
                     THEN [ZeroProfile EXCEPT !.current_streak = 2, !.best_streak = 2]
                     ELSE ZeroProfile]
  /\ api = (101 :> [short |-> "2H", home |-> 1, away |-> 0, league |-> LgPremier])
             @@ (102 :> [short |-> "2H", home |-> 0, away |-> 0, league |-> LgChampionship])
  /\ isGradingRunning = FALSE
  /\ fails = 0

InitStore(pr, ph) == InitStoreOf(WinnerRows, ScoreRows, pr, ph)

NoAwards == [k \in {3, 5, 10} |-> 0]

\* the variables of SpecStats while another specification runs
StatsIdle ==
  /\ st_profile = ZeroProfile
  /\ st_prev = ZeroProfile
  /\ st_winner = NoRes
  /\ st_score = NoRes
  /\ st_outcome = "none"
  /\ st_awards = NoAwards
  /\ st_calls = 0

NoFixture == [short |-> "NS", home |-> 0, away |-> 0, league |-> LgNone]

\* the variables of SpecPoints while another specification runs
PointsIdle ==
  /\ pt_fixture = NoFixture
  /\ pt_answer = "ok"
  /\ pt_winner = [predicted_result |-> "home", status |-> "pending",
                  is_correct |-> FALSE, points_earned |-> 0, actual_result |-> ""]
  /\ pt_score = [predicted_home_score |-> 0, predicted_away_score |-> 0,
                 status |-> "pending", is_correct |-> FALSE, points_earned |-> 0,
                 actual_home_score |-> NULL, actual_away_score |-> NULL]
  /\ pt_result = NoResult
  /\ pt_phase = "pending"

\* the variables of Spec while another specification runs
GradingIdle ==
  /\ InitStore([p \in WinnerIds |-> "home"], [p \in ScoreIds |-> 0])
  /\ InitRuns

\* ------------------------------------------------- scheduler and sync, idle

\* the four job types of the scheduler that carry a flag
Jobs == {"liveSync", "dailySync", "grading", "cleanup"}

\* the variables of SpecSched while another specification runs
SchedIdle ==
  /\ isLiveSyncRunning = FALSE
  /\ isDailySyncRunning = FALSE
  /\ isCleanupRunning = FALSE
  /\ sc_inFlight = [j \in Jobs |-> 0]
  /\ sc_calls = [j \in Jobs |-> 0]
  /\ sc_dropped = [j \in Jobs |-> FALSE]
  /\ sc_last = [j \in Jobs |-> "none"]

BLACKLISTED_MATCH_IDS == {1434975}

\* the match ids the provider knows: the blacklisted one and another
SyncIds == BLACKLISTED_MATCH_IDS \cup {7}

\* fixture.date per match id, in hours
DateOf == (1434975 :> 0) @@ (7 :> 3)

\* the provider lists no fixture for the id
NotListed ==
  [listed |-> FALSE, short |-> "NS", home |-> NULL, away |-> NULL,
   ft_home |-> NULL, ft_away |-> NULL]

\* no fixStuckMatches was the last operation
NoFix == [maxHours |-> 0, found |-> {}, failedMatches |-> {}]

\* the two sync jobs whose runs may overlap
SyncRuns == {"daily", "live"}

\* the variables of SpecOverlap while another specification runs
OverlapIdle ==
  /\ sy_pc = [r \in SyncRuns |-> "idle"]
  /\ sy_data = [r \in SyncRuns |-> {}]
  /\ sy_newest = "none"

\* the variables of SpecSync while another specification runs
SyncIdle ==
  /\ OverlapIdle
  /\ supabase = "client"
  /\ gradingClient = "client"
  /\ matches = {}
  /\ feed = [id \in SyncIds |-> NotListed]
  /\ clock = 5
  /\ op = "none"
  /\ returned = "none"
  /\ storeCalls = 0
  /\ threw = FALSE
  /\ syncWrites = {}
  /\ fixed = [id \in SyncIds |-> ""]
  /\ lastFix = NoFix
  /\ inSuccession = FALSE
  /\ repeat = FALSE

Init ==
  /\ \E pr \in [WinnerIds -> {"home", "draw"}], ph \in [ScoreIds -> {0}] :
       InitStore(pr, ph)
  /\ InitRuns
  /\ StatsIdle
  /\ PointsIdle
  /\ SchedIdle
  /\ SyncIdle

\* ------------------------------------------------------------- store queries

\* .eq('status', 'pending') on a prediction table, one column selected
pendingMatchIds(table) ==
  {table[p].match_id : p \in {q \in DOMAIN table : table[q].status = "pending"}}

\* the select of the rows of the match without the status filter
pendingRows_anyStatus(table, matchId) ==
  {p \in DOMAIN table : table[p].match_id = matchId}

\* .eq('match_id', matchId).eq('status', 'pending')
pendingRows(table, matchId) ==
  {p \in DOMAIN table : table[p].match_id = matchId /\ table[p].status = "pending"}

gradedRows ==
  {p \in DOMAIN winner_predictions : winner_predictions[p].status = "graded"}
    \cup {p \in DOMAIN score_predictions : score_predictions[p].status = "graded"}

\* outcomes of a store call: TRUE, and an error while failures may be injected
Outcomes == IF fails < MaxFails THEN {TRUE, FALSE} ELSE {TRUE}

\* answers of the provider call: the fixture, an error envelope, an empty list
Answers == IF fails < MaxFails THEN {"ok", "error", "empty"} ELSE {"ok"}

\* the envelope getFixtures returns
getFixtures(kind, fixture) ==
  IF kind = "ok" THEN [success |-> TRUE, data |-> <<fixture>>]
  ELSE IF kind = "empty" THEN [success |-> TRUE, data |-> <<>>]
  ELSE [success |-> FALSE, data |-> <<>>]

\* a lookup that answers from the matches table where it holds the match
getMatchById_fromStore(kind, matchId) ==
  IF \E m \in matches : m.id = matchId
    THEN LET m == CHOOSE n \in matches : n.id = matchId IN
         getFixtures(kind, [short |-> m.status_short, home |-> m.home_score,
                            away |-> m.away_score, league |-> api[matchId].league])
    ELSE getFixtures(kind, api[matchId])

\* apiFootball.getMatchById: the provider's fixture, whatever the store holds
getMatchById(kind, matchId) == getFixtures(kind, api[matchId])

\* ------------------------------------------------------------ control flow

\* a finally block that leaves the flag set
flagAfter_staysSet(r, nextPc) == isGradingRunning

\* the cron callback's finally block runs when its run ends
flagAfter(r, nextPc) ==
  IF r = "cron" /\ nextPc = "done" THEN FALSE ELSE isGradingRunning

\* locals of a run that has returned
Cleared(r) ==
  /\ matchIds' = [matchIds EXCEPT ![r] = {}]
  /\ listError' = [listError EXCEPT ![r] = FALSE]
  /\ cur' = [cur EXCEPT ![r] = 0]
  /\ matchResult' = [matchResult EXCEPT ![r] = NoResult]
  /\ todo' = [todo EXCEPT ![r] = {}]
  /\ winnerResults' = [winnerResults EXCEPT ![r] = NoResults]
  /\ scoreResults' = [scoreResults EXCEPT ![r] = NoResults]
  /\ allEmails' = [allEmails EXCEPT ![r] = {}]
  /\ email' = [email EXCEPT ![r] = ""]
  /\ profile' = [profile EXCEPT ![r] = ZeroProfile]

\* the run returns value
Return(r, value) ==
  /\ pc' = [pc EXCEPT ![r] = "done"]
  /\ ret' = [ret EXCEPT ![r] = value]
  /\ isGradingRunning' = flagAfter(r, "done")
  /\ UNCHANGED entry
  /\ Cleared(r)

\* ---------------------------------------------------------------- actions

\* the history of a run starts over
Begin(r) ==
  /\ gradedAtStart' = [gradedAtStart EXCEPT ![r] = gradedRows]
  /\ wrote' = [wrote EXCEPT ![r] = {}]
  /\ credited' = [credited EXCEPT ![r] = {}]
  /\ notReady' = [notReady EXCEPT ![r] = {}]
  /\ lost' = [lost EXCEPT ![r] = {}]
  /\ ret' = [ret EXCEPT ![r] = "none"]
  /\ gradedCount' = [gradedCount EXCEPT ![r] = NoCounts]
  /\ correctCount' = [correctCount EXCEPT ![r] = NoCounts]
  /\ UNCHANGED <<gradeCount, creditCount, statsCount, bonuses>>

\* the cron tick (flag clear) or runManualGrading: gradeAllPendingPredictions starts
StartAll(r) ==
  /\ pc[r] \in {"idle", "done"}
  /\ r = "cron" => ~isGradingRunning
  /\ isGradingRunning' = IF r = "cron" THEN TRUE ELSE isGradingRunning
  /\ pc' = [pc EXCEPT ![r] = "listWinner"]
  /\ entry' = [entry EXCEPT ![r] = "all"]
  /\ Begin(r)
  /\ UNCHANGED <<storeVars, api, fails, matchIds, listError, cur, matchResult,
                 todo, winnerResults, scoreResults, allEmails, email, profile>>
  /\ UNCHANGED <<statsVars, pointsVars, schedVars, syncVars>>

\* the cron tick while the previous run is in flight
CronSkip ==
  /\ isGradingRunning
  /\ UNCHANGED vars

\* gradeMatch(matchId) starts
StartMatch(r, matchId) ==
  /\ r = "manual"
  /\ pc[r] \in {"idle", "done"}
  /\ pc' = [pc EXCEPT ![r] = "fetch"]
  /\ entry' = [entry EXCEPT ![r] = "match"]
  /\ matchIds' = [matchIds EXCEPT ![r] = {matchId}]
  /\ Begin(r)
  /\ UNCHANGED <<storeVars, api, fails, isGradingRunning, listError, cur,
                 matchResult, todo, winnerResults, scoreResults, allEmails,
                 email, profile>>
  /\ UNCHANGED <<statsVars, pointsVars, schedVars, syncVars>>

\* a gradeMatch that reports a success for the match it did not grade
notFinishedReturn_success == "success"

\* gradeMatch: return { success: false, error: 'Match not finished or not found' }
notFinishedReturn == "error"

\* getFinishedMatchesToGrade, first query
ListWinner(r) ==
  /\ pc[r] = "listWinner"
  /\ \E ok \in Outcomes :
       /\ fails' = IF ok THEN fails ELSE fails + 1
       /\ listError' = [listError EXCEPT ![r] = ~ok]
       /\ matchIds' = [matchIds EXCEPT ![r] =
                         IF ok THEN pendingMatchIds(winner_predictions) ELSE {}]
  /\ pc' = [pc EXCEPT ![r] = "listScore"]
  /\ UNCHANGED <<storeVars, api, isGradingRunning, entry, cur, matchResult, todo,
                 winnerResults, scoreResults, allEmails, email, profile, ret,
                 histVars, countVars>>
  /\ UNCHANGED <<statsVars, pointsVars, schedVars, syncVars>>

\* getFinishedMatchesToGrade, second query, and the empty-list return
ListScore(r) ==
  /\ pc[r] = "listScore"
  /\ \E ok \in Outcomes :
       LET ids == IF listError[r] \/ ~ok
                    THEN {}
                    ELSE matchIds[r] \cup pendingMatchIds(score_predictions) IN
       /\ fails' = IF ok THEN fails ELSE fails + 1
       /\ IF ids = {}
            THEN Return(r, "success")
            ELSE /\ matchIds' = [matchIds EXCEPT ![r] = ids]
                 /\ listError' = [listError EXCEPT ![r] = FALSE]
                 /\ pc' = [pc EXCEPT ![r] = "fetch"]
                 /\ UNCHANGED <<isGradingRunning, entry, cur, matchResult, todo,
                                winnerResults, scoreResults, allEmails, email,
                                profile, ret>>
  /\ UNCHANGED <<storeVars, api, histVars, countVars>>
  /\ UNCHANGED <<statsVars, pointsVars, schedVars, syncVars>>

\* getMatchResult(matchId) for the next match id, and the skip of a null result
Fetch(r) ==
  /\ pc[r] = "fetch"
  /\ \E matchId \in matchIds[r], kind \in Answers :
       LET result == getMatchResult(getMatchById(kind, matchId))
           rest == matchIds[r] \ {matchId} IN
       /\ fails' = IF kind = "ok" THEN fails ELSE fails + 1
       /\ notReady' = [notReady EXCEPT ![r] =
                         IF kind = "ok" /\ api[matchId].short \in finishedStatuses
                           THEN @ ELSE @ \cup {matchId}]
       /\ IF result.isNull
            THEN IF entry[r] = "match" THEN Return(r, notFinishedReturn)
                 ELSE IF rest = {} THEN Return(r, "success")
                 ELSE /\ matchIds' = [matchIds EXCEPT ![r] = rest]
                      /\ UNCHANGED <<pc, isGradingRunning, entry, listError, cur,
                                     matchResult, todo, winnerResults,
                                     scoreResults, allEmails, email, profile, ret>>
            ELSE /\ matchIds' = [matchIds EXCEPT ![r] = rest]
                 /\ cur' = [cur EXCEPT ![r] = matchId]
                 /\ matchResult' = [matchResult EXCEPT ![r] = result]
                 /\ pc' = [pc EXCEPT ![r] = "selectWinner"]
                 /\ UNCHANGED <<isGradingRunning, entry, listError, todo, winnerResults,
                                scoreResults, allEmails, email, profile, ret>>
  /\ UNCHANGED <<storeVars, api, gradedAtStart, wrote, countVars, credited, lost,
                 gradeCount, creditCount, statsCount, bonuses>>
  /\ UNCHANGED <<statsVars, pointsVars, schedVars, syncVars>>

\* gradeWinnerPredictions: the select of the pending rows of the match
SelectWinner(r) ==
  /\ pc[r] = "selectWinner"
  /\ \E ok \in Outcomes :
       LET predictions == IF ok THEN pendingRows(winner_predictions, cur[r]) ELSE {} IN
       /\ fails' = IF ok THEN fails ELSE fails + 1
       /\ todo' = [todo EXCEPT ![r] = predictions]
       /\ pc' = [pc EXCEPT ![r] =
                   IF predictions = {} THEN "selectScore" ELSE "updateWinner"]
  /\ gradedCount' = [gradedCount EXCEPT ![r] = NoCounts]
  /\ correctCount' = [correctCount EXCEPT ![r] = NoCounts]
  /\ UNCHANGED <<storeVars, api, isGradingRunning, matchIds, entry, listError, cur,
                 matchResult, winnerResults, scoreResults, allEmails, email,
                 profile, ret, histVars>>
  /\ UNCHANGED <<statsVars, pointsVars, schedVars, syncVars>>

\* a loop that a failed update ends
restAfter_breaks(rows, p, ok) == IF ok THEN rows \ {p} ELSE {}

\* the rows the for loop has still to visit after the turn for row p: the
\* failed update ends the turn with continue
restAfter(rows, p, ok) == rows \ {p}

\* gradeWinnerPredictions: one turn of the for loop
UpdateWinner(r) ==
  /\ pc[r] = "updateWinner"
  /\ \E p \in todo[r], ok \in Outcomes :
       LET prediction == winner_predictions[p]
           isCorrect == winnerIsCorrect(prediction, matchResult[r])
           pointsEarned == calculatePoints("winner", isCorrect, matchResult[r].leagueName)
           rest == restAfter(todo[r], p, ok) IN
       /\ fails' = IF ok THEN fails ELSE fails + 1
       /\ todo' = [todo EXCEPT ![r] = rest]
       /\ pc' = [pc EXCEPT ![r] = IF rest = {} THEN "selectScore" ELSE "updateWinner"]
       /\ IF ok
            THEN /\ winner_predictions' =
                      [winner_predictions EXCEPT ![p] =
                         [@ EXCEPT !.status = "graded", !.is_correct = isCorrect,
                                   !.points_earned = pointsEarned,
                                   !.actual_result = matchResult[r].winner]]
                 /\ winnerResults' =
                      [winnerResults EXCEPT ![r][prediction.email] =
                         [present |-> TRUE, points |-> pointsEarned,
                          isCorrect |-> isCorrect, src |-> p]]
                 /\ wrote' = [wrote EXCEPT ![r] = @ \cup {p}]
                 /\ gradeCount' = [gradeCount EXCEPT ![p] = @ + 1]
                 /\ gradedCount' = [gradedCount EXCEPT ![r].winner = @ + 1]
                 /\ correctCount' =
                      [correctCount EXCEPT ![r].winner =
                         IF isCorrect THEN @ + 1 ELSE @]
                 /\ UNCHANGED lost
            ELSE /\ lost' = [lost EXCEPT ![r] = @ \cup {p}]
                 /\ UNCHANGED <<winner_predictions, winnerResults, wrote, countVars, gradeCount>>
  /\ UNCHANGED <<score_predictions, profiles, api, isGradingRunning, matchIds,
                 entry, listError, cur, matchResult, scoreResults, allEmails, email,
                 profile, ret, gradedAtStart, credited, notReady, creditCount,
                 statsCount, bonuses>>
  /\ UNCHANGED <<statsVars, pointsVars, schedVars, syncVars>>

\* the end of the loop body: the next match id, or the return
AfterMatch(r) ==
  IF entry[r] = "match" \/ matchIds[r] = {}
    THEN Return(r, "success")
    ELSE /\ pc' = [pc EXCEPT ![r] = "fetch"]
         /\ cur' = [cur EXCEPT ![r] = 0]
         /\ matchResult' = [matchResult EXCEPT ![r] = NoResult]
         /\ todo' = [todo EXCEPT ![r] = {}]
         /\ winnerResults' = [winnerResults EXCEPT ![r] = NoResults]
         /\ scoreResults' = [scoreResults EXCEPT ![r] = NoResults]
         /\ allEmails' = [allEmails EXCEPT ![r] = {}]
         /\ email' = [email EXCEPT ![r] = ""]
         /\ profile' = [profile EXCEPT ![r] = ZeroProfile]
         /\ UNCHANGED <<matchIds, entry, listError, ret, isGradingRunning>>

\* new Set of the keys of both userResults, and the entry of the stats loop
StatsLoop(r, scoreUserResults) ==
  LET emails == {u \in Users :
                   winnerResults[r][u].present \/ scoreUserResults[u].present} IN
  IF emails = {}
    THEN AfterMatch(r)
    ELSE /\ pc' = [pc EXCEPT ![r] = "readProfile"]
         /\ scoreResults' = [scoreResults EXCEPT ![r] = scoreUserResults]
         /\ allEmails' = [allEmails EXCEPT ![r] = emails]
         /\ todo' = [todo EXCEPT ![r] = {}]
         /\ UNCHANGED <<matchIds, entry, listError, cur, matchResult, winnerResults,
                        email, profile, ret, isGradingRunning>>

\* gradeScorePredictions: the select of the pending rows of the match
SelectScore(r) ==
  /\ pc[r] = "selectScore"
  /\ \E ok \in Outcomes :
       LET predictions == IF ok THEN pendingRows(score_predictions, cur[r]) ELSE {} IN
       /\ fails' = IF ok THEN fails ELSE fails + 1
       /\ IF predictions = {}
            THEN StatsLoop(r, NoResults)
            ELSE /\ todo' = [todo EXCEPT ![r] = predictions]
                 /\ pc' = [pc EXCEPT ![r] = "updateScore"]
                 /\ UNCHANGED <<matchIds, entry, listError, cur, matchResult,
                                winnerResults, scoreResults, allEmails, email,
                                profile, ret, isGradingRunning>>
  /\ UNCHANGED <<storeVars, api, histVars, countVars>>
  /\ UNCHANGED <<statsVars, pointsVars, schedVars, syncVars>>

\* gradeScorePredictions: one turn of the for loop
UpdateScore(r) ==
  /\ pc[r] = "updateScore"
  /\ \E p \in todo[r], ok \in Outcomes :
       LET prediction == score_predictions[p]
           isCorrect == scoreIsCorrect(prediction, matchResult[r])
           pointsEarned == calculatePoints("score", isCorrect, matchResult[r].leagueName)
           rest == restAfter(todo[r], p, ok)
           userResults ==
             IF ok
               THEN [scoreResults[r] EXCEPT ![prediction.email] =
                       [present |-> TRUE, points |-> pointsEarned,
                        isCorrect |-> isCorrect, src |-> p]]
               ELSE scoreResults[r] IN
       /\ fails' = IF ok THEN fails ELSE fails + 1
       /\ IF ok
            THEN /\ score_predictions' =
                      [score_predictions EXCEPT ![p] =
                         [@ EXCEPT !.status = "graded", !.is_correct = isCorrect,
                                   !.points_earned = pointsEarned,
                                   !.actual_home_score = matchResult[r].homeScore,
                                   !.actual_away_score = matchResult[r].awayScore]]
                 /\ wrote' = [wrote EXCEPT ![r] = @ \cup {p}]
                 /\ gradeCount' = [gradeCount EXCEPT ![p] = @ + 1]
                 /\ gradedCount' = [gradedCount EXCEPT ![r].score = @ + 1]
                 /\ correctCount' =
                      [correctCount EXCEPT ![r].score =
                         IF isCorrect THEN @ + 1 ELSE @]
                 /\ UNCHANGED lost
            ELSE /\ lost' = [lost EXCEPT ![r] = @ \cup {p}]
                 /\ UNCHANGED <<score_predictions, wrote, countVars, gradeCount>>
       /\ IF rest = {}
            THEN StatsLoop(r, userResults)
            ELSE /\ todo' = [todo EXCEPT ![r] = rest]
                 /\ scoreResults' = [scoreResults EXCEPT ![r] = userResults]
                 /\ UNCHANGED <<pc, matchIds, entry, listError, cur, matchResult,
                                winnerResults, allEmails, email, profile, ret,
                                isGradingRunning>>
  /\ UNCHANGED <<winner_predictions, profiles, api, gradedAtStart, credited,
                 notReady, creditCount, statsCount, bonuses>>
  /\ UNCHANGED <<statsVars, pointsVars, schedVars, syncVars>>

\* the rows behind the partial results of user u in run r
sourcesOf(r, u) ==
  (IF winnerResults[r][u].present THEN {winnerResults[r][u].src} ELSE {})
    \cup (IF scoreResults[r][u].present THEN {scoreResults[r][u].src} ELSE {})

\* the stats loop goes on with the emails left, or the loop body ends
NextEmail(r, rest) ==
  IF rest = {}
    THEN AfterMatch(r)
    ELSE /\ pc' = [pc EXCEPT ![r] = "readProfile"]
         /\ allEmails' = [allEmails EXCEPT ![r] = rest]
         /\ email' = [email EXCEPT ![r] = ""]
         /\ profile' = [profile EXCEPT ![r] = ZeroProfile]
         /\ UNCHANGED <<matchIds, entry, listError, cur, matchResult, todo,
                        winnerResults, scoreResults, ret, isGradingRunning>>

\* updateUserStatsPerMatch: the read of the profile row
ReadProfile(r) ==
  /\ pc[r] = "readProfile"
  /\ \E u \in allEmails[r], ok \in Outcomes :
       LET rest == allEmails[r] \ {u} IN
       /\ fails' = IF ok THEN fails ELSE fails + 1
       /\ IF ok
            THEN /\ pc' = [pc EXCEPT ![r] = "writeProfile"]
                 /\ email' = [email EXCEPT ![r] = u]
                 /\ profile' = [profile EXCEPT ![r] = profiles[u]]
                 /\ allEmails' = [allEmails EXCEPT ![r] = rest]
                 /\ UNCHANGED <<matchIds, entry, listError, cur, matchResult, todo,
                                winnerResults, scoreResults, ret,
                                isGradingRunning, lost>>
            ELSE /\ lost' = [lost EXCEPT ![r] = @ \cup sourcesOf(r, u)]
                 /\ NextEmail(r, rest)
  /\ UNCHANGED <<storeVars, api, gradedAtStart, wrote, countVars, credited, notReady,
                 gradeCount, creditCount, statsCount, bonuses>>
  /\ UNCHANGED <<statsVars, pointsVars, schedVars, syncVars>>

\* updateUserStatsPerMatch: the update of the profile row
WriteProfile(r) ==
  /\ pc[r] = "writeProfile"
  /\ \E ok \in Outcomes :
       LET u == email[r]
           rows == sourcesOf(r, u) IN
       /\ fails' = IF ok THEN fails ELSE fails + 1
       /\ IF ok
            THEN /\ profiles' =
                      [profiles EXCEPT ![u] =
                         newProfile(profile[r], winnerResults[r][u], scoreResults[r][u])]
                 /\ credited' = [credited EXCEPT ![r] = @ \cup rows]
                 /\ creditCount' =
                      [p \in DOMAIN creditCount |->
                         creditCount[p] + (IF p \in rows THEN 1 ELSE 0)]
                 /\ statsCount' = [statsCount EXCEPT ![u][cur[r]] = @ + 1]
                 /\ bonuses' =
                      [bonuses EXCEPT ![u] =
                         @ + streakBonus(profile[r], winnerResults[r][u],
                                         scoreResults[r][u])]
                 /\ UNCHANGED lost
            ELSE /\ lost' = [lost EXCEPT ![r] = @ \cup rows]
                 /\ UNCHANGED <<profiles, credited, creditCount, statsCount, bonuses>>
       /\ NextEmail(r, allEmails[r])
  /\ UNCHANGED <<winner_predictions, score_predictions, api, gradedAtStart,
                 wrote, countVars, notReady, gradeCount>>
  /\ UNCHANGED <<statsVars, pointsVars, schedVars, syncVars>>

\* the finished status the provider ends each match with
FinalStatus == (101 :> "FT") @@ (102 :> "AET")

\* the provider reports the match finished
ProviderFinish(matchId) ==
  /\ api[matchId].short \notin finishedStatuses
  /\ api' = [api EXCEPT ![matchId].short = FinalStatus[matchId]]
  /\ UNCHANGED <<storeVars, isGradingRunning, fails, runVars, histVars, countVars>>
  /\ UNCHANGED <<statsVars, pointsVars, schedVars, syncVars>>

Next ==
  \/ \E r \in Runs : StartAll(r)
  \/ CronSkip
  \/ \E r \in Runs, matchId \in Matches : StartMatch(r, matchId)
  \/ \E r \in Runs : ListWinner(r)
  \/ \E r \in Runs : ListScore(r)
  \/ \E r \in Runs : Fetch(r)
  \/ \E r \in Runs : SelectWinner(r)
  \/ \E r \in Runs : UpdateWinner(r)
  \/ \E r \in Runs : SelectScore(r)
  \/ \E r \in Runs : UpdateScore(r)
  \/ \E r \in Runs : ReadProfile(r)
  \/ \E r \in Runs : WriteProfile(r)
  \/ \E matchId \in Matches : ProviderFinish(matchId)

Spec == Init /\ [][Next]_vars

\* ------------------------------------------------ runs one after the other

\* no other run is in flight
Quiet(r) == \A q \in Runs \ {r} : pc[q] \in {"idle", "done"}

NextSeq ==
  \/ \E r \in Runs : Quiet(r) /\ StartAll(r)
  \/ CronSkip
  \/ \E r \in Runs, matchId \in Matches : Quiet(r) /\ StartMatch(r, matchId)
  \/ \E r \in Runs : ListWinner(r)
  \/ \E r \in Runs : ListScore(r)
  \/ \E r \in Runs : Fetch(r)
  \/ \E r \in Runs : SelectWinner(r)
  \/ \E r \in Runs : UpdateWinner(r)
  \/ \E r \in Runs : SelectScore(r)
  \/ \E r \in Runs : UpdateScore(r)
  \/ \E r \in Runs : ReadProfile(r)
  \/ \E r \in Runs : WriteProfile(r)
  \/ \E matchId \in Matches : ProviderFinish(matchId)

SpecSeq == Init /\ [][NextSeq]_vars

\* -------------------------------------- updateUserStatsPerMatch, call by call

\* a profile row whose columns were never set
NullProfile ==
  [total_experience |-> NULL, season_points |-> NULL, current_streak |-> NULL,
   best_streak |-> NULL, correct_predictions |-> NULL, total_predictions |-> NULL]

\* the partial results a grading call hands over for one user (normal league)
WinnerPartials ==
  {NoRes, [present |-> TRUE, points |-> calculatePoints("winner", TRUE, LgSerieB),
           isCorrect |-> TRUE, src |-> 0],
          [present |-> TRUE, points |-> calculatePoints("winner", FALSE, LgSerieB),
           isCorrect |-> FALSE, src |-> 0]}
ScorePartials ==
  {NoRes, [present |-> TRUE, points |-> calculatePoints("score", TRUE, LgSerieB),
           isCorrect |-> TRUE, src |-> 0],
          [present |-> TRUE, points |-> calculatePoints("score", FALSE, LgSerieB),
           isCorrect |-> FALSE, src |-> 0]}

\* history: the milestone bonuses counted since the streak was last 0
awardsAfter(awards, streak, bonus) ==
  IF streak = 0 THEN NoAwards
  ELSE [k \in {3, 5, 10} |->
          awards[k] + (IF (k = 3 /\ bonus = 5) \/ (k = 5 /\ bonus = 10)
                          \/ (k = 10 /\ bonus = 25) THEN 1 ELSE 0)]

\* the profile after k matches in a row with one correct winner prediction each
RECURSIVE profileAfter(_)
profileAfter(k) ==
  IF k = 0 THEN ZeroProfile
  ELSE newProfile(profileAfter(k - 1),
                  [present |-> TRUE, points |-> calculatePoints("winner", TRUE, LgSerieB),
                   isCorrect |-> TRUE, src |-> 0],
                  NoRes)

\* history: the bonuses those k matches brought
RECURSIVE awardsOf(_)
awardsOf(k) ==
  IF k = 0 THEN NoAwards
  ELSE awardsAfter(awardsOf(k - 1), profileAfter(k).current_streak,
                   profileAfter(k).total_experience
                     - profileAfter(k - 1).total_experience
                     - calculatePoints("winner", TRUE, LgSerieB))

InitStats ==
  /\ GradingIdle
  /\ PointsIdle
  /\ SchedIdle
  /\ SyncIdle
  /\ \/ st_profile = NullProfile /\ st_awards = NoAwards
     \/ \E k \in 0..MaxStart :
          st_profile = profileAfter(k) /\ st_awards = awardsOf(k)
  /\ st_prev = st_profile
  /\ st_winner = NoRes
  /\ st_score = NoRes
  /\ st_outcome = "none"
  /\ st_calls = 0

\* one call of updateUserStatsPerMatch(email, winnerResult, scoreResult)
updateUserStatsPerMatch(winnerResult, scoreResult, outcome) ==
  /\ st_calls < MaxCalls
  /\ winnerResult.present \/ scoreResult.present
  /\ st_calls' = st_calls + 1
  /\ st_prev' = st_profile
  /\ st_outcome' = outcome
  /\ IF outcome = "ok"
       THEN LET row == newProfile(st_profile, winnerResult, scoreResult)
                bonus == row.total_experience - orZero(st_profile.total_experience)
                           - winnerResult.points - scoreResult.points IN
            /\ st_profile' = row
            /\ st_winner' = winnerResult
            /\ st_score' = scoreResult
            /\ st_awards' = awardsAfter(st_awards, row.current_streak, bonus)
       ELSE UNCHANGED <<st_profile, st_winner, st_score, st_awards>>
  /\ UNCHANGED <<gradingVars, pointsVars, schedVars, syncVars>>

NextStats ==
  \E winnerResult \in WinnerPartials, scoreResult \in ScorePartials,
     outcome \in {"ok", "fetchError", "updateError"} :
    updateUserStatsPerMatch(winnerResult, scoreResult, outcome)

SpecStats == InitStats /\ [][NextStats]_vars

\* ------------------------------------------- one match graded, start to end

Shorts == {"NS", "1H", "HT", "FT", "AET", "PEN", "PST"}

InitPoints ==
  /\ GradingIdle
  /\ StatsIdle
  /\ SchedIdle
  /\ SyncIdle
  /\ pt_fixture \in [short : Shorts, home : 0..MaxGoals, away : 0..MaxGoals,
                     league : LeagueNames]
  /\ pt_answer \in {"ok", "error", "empty"}
  /\ \E predicted \in {"home", "away", "draw"} :
       pt_winner = [predicted_result |-> predicted, status |-> "pending",
                    is_correct |-> FALSE, points_earned |-> 0, actual_result |-> ""]
  /\ \E h \in 0..MaxGoals, a \in 0..MaxGoals :
       pt_score = [predicted_home_score |-> h, predicted_away_score |-> a,
                   status |-> "pending", is_correct |-> FALSE, points_earned |-> 0,
                   actual_home_score |-> NULL, actual_away_score |-> NULL]
  /\ pt_result = NoResult
  /\ pt_phase = "pending"

\* gradeMatch on a match with one pending row of each kind, every write succeeding
gradeMatch ==
  /\ pt_phase = "pending"
  /\ LET matchResult_ == getMatchResult(getFixtures(pt_answer, pt_fixture))
         winnerCorrect == winnerIsCorrect(pt_winner, matchResult_)
         scoreCorrect == scoreIsCorrect(pt_score, matchResult_) IN
     /\ pt_result' = matchResult_
     /\ IF matchResult_.isNull
          THEN /\ pt_phase' = "skipped"
               /\ UNCHANGED <<pt_winner, pt_score>>
          ELSE /\ pt_phase' = "graded"
               /\ pt_winner' =
                    [pt_winner EXCEPT
                       !.status = "graded", !.is_correct = winnerCorrect,
                       !.points_earned =
                          calculatePoints("winner", winnerCorrect, matchResult_.leagueName),
                       !.actual_result = matchResult_.winner]
               /\ pt_score' =
                    [pt_score EXCEPT
                       !.status = "graded", !.is_correct = scoreCorrect,
                       !.points_earned =
                          calculatePoints("score", scoreCorrect, matchResult_.leagueName),
                       !.actual_home_score = matchResult_.homeScore,
                       !.actual_away_score = matchResult_.awayScore]
  /\ UNCHANGED <<pt_fixture, pt_answer, gradingVars, statsVars, schedVars, syncVars>>

NextPoints == gradeMatch

SpecPoints == InitPoints /\ [][NextPoints]_vars

\* ------------------------------------------------------------ the scheduler

\* the flag of the job type
isRunning(j) ==
  CASE j = "liveSync" -> isLiveSyncRunning
    [] j = "dailySync" -> isDailySyncRunning
    [] j = "grading" -> isGradingRunning
    [] j = "cleanup" -> isCleanupRunning

\* the flag of job type j becomes v, the other flags stay
setRunning(j, v) ==
  /\ isLiveSyncRunning' = IF j = "liveSync" THEN v ELSE isLiveSyncRunning
  /\ isDailySyncRunning' = IF j = "dailySync" THEN v ELSE isDailySyncRunning
  /\ isGradingRunning' = IF j = "grading" THEN v ELSE isGradingRunning
  /\ isCleanupRunning' = IF j = "cleanup" THEN v ELSE isCleanupRunning

\* a callback that never takes the early return
skips_never(j) == FALSE

\* if (is...Running) { ...; return; }
skips(j) == isRunning(j)

\* the cron callback of job type j fires: the early return, or the flag is
\* set and the engine is called
cronTick(j) ==
  /\ IF skips(j)
       THEN /\ sc_dropped' = [sc_dropped EXCEPT ![j] = TRUE]
            /\ UNCHANGED <<isLiveSyncRunning, isDailySyncRunning,
                           isGradingRunning, isCleanupRunning, sc_inFlight,
                           sc_calls>>
       ELSE /\ sc_calls[j] < MaxTicks
            /\ setRunning(j, TRUE)
            /\ sc_inFlight' = [sc_inFlight EXCEPT ![j] = @ + 1]
            /\ sc_calls' = [sc_calls EXCEPT ![j] = @ + 1]
            /\ sc_dropped' = [sc_dropped EXCEPT ![j] = FALSE]
  /\ UNCHANGED <<sc_last, storeVars, api, fails, runVars, histVars, countVars>>
  /\ UNCHANGED <<statsVars, pointsVars, syncVars>>

startLiveSync == cronTick("liveSync")
startDailySync == cronTick("dailySync")
startAutoGrading == cronTick("grading")
startAutoCleanup == cronTick("cleanup")

\* a reset at the end of the try block, which a throw skips
clearsFlag_unlessThrown(outcome) == outcome # "threw"

\* the reset is in the finally block: it runs however the engine call ended
clearsFlag(outcome) == TRUE

\* the engine call of a run of job type j returns a success, returns a
\* failure or throws; the finally block clears the flag
endRun(j, outcome) ==
  /\ sc_inFlight[j] > 0
  /\ setRunning(j, IF clearsFlag(outcome) THEN FALSE ELSE isRunning(j))
  /\ sc_inFlight' = [sc_inFlight EXCEPT ![j] = @ - 1]
  /\ sc_last' = [sc_last EXCEPT ![j] = outcome]
  /\ UNCHANGED <<sc_calls, sc_dropped, storeVars, api, fails, runVars, histVars, countVars>>
  /\ UNCHANGED <<statsVars, pointsVars, syncVars>>

InitSched ==
  /\ GradingIdle
  /\ StatsIdle
  /\ PointsIdle
  /\ SchedIdle
  /\ SyncIdle

NextSched ==
  \/ startLiveSync
  \/ startDailySync
  \/ startAutoGrading
  \/ startAutoCleanup
  \/ \E j \in Jobs, outcome \in {"success", "failed", "threw"} : endRun(j, outcome)

SpecSched == InitSched /\ [][NextSched]_vars

\* every engine call a cron callback awaits returns or throws
SpecSchedFair ==
  /\ InitSched
  /\ [][NextSched]_vars
  /\ \A j \in Jobs :
       WF_vars(\E outcome \in {"success", "failed", "threw"} : endRun(j, outcome))

\* --------------------------------------------------------------- match sync

\* the status codes transformMatch tells apart
liveCodes == {"1H", "2H", "HT", "ET", "P", "BT", "LIVE"}
finishedCodes == {"FT", "AET", "PEN"}
postponedCodes == {"PST", "CANC", "ABD", "AWD", "WO"}
scheduledCodes == {"TBD", "NS"}

\* a check that lets every id through
isBlacklisted_never(matchId) == FALSE

isBlacklisted(matchId) == matchId \in BLACKLISTED_MATCH_IDS

\* what the provider may hold for a match id: status.short, goals.home,
\* goals.away, score.fulltime.home, score.fulltime.away
ProviderRecords ==
  {[listed |-> TRUE, short |-> "NS", home |-> NULL, away |-> NULL,
    ft_home |-> NULL, ft_away |-> NULL],
   [listed |-> TRUE, short |-> "1H", home |-> 1, away |-> 0,
    ft_home |-> NULL, ft_away |-> NULL],
   [listed |-> TRUE, short |-> "1H", home |-> 1, away |-> NULL,
    ft_home |-> NULL, ft_away |-> NULL],
   [listed |-> TRUE, short |-> "FT", home |-> 2, away |-> 1,
    ft_home |-> 2, ft_away |-> 1],
   [listed |-> TRUE, short |-> "FT", home |-> NULL, away |-> NULL,
    ft_home |-> NULL, ft_away |-> NULL],
   [listed |-> TRUE, short |-> "AET", home |-> 2, away |-> 1,
    ft_home |-> 1, ft_away |-> 1],
   [listed |-> TRUE, short |-> "PST", home |-> NULL, away |-> NULL,
    ft_home |-> NULL, ft_away |-> NULL],
   [listed |-> TRUE, short |-> "INT", home |-> 1, away |-> 0,
    ft_home |-> NULL, ft_away |-> NULL]}

\* what the provider may hold for the blacklisted id
StuckRecords ==
  {r \in ProviderRecords : r.short = "1H" /\ r.away = 0}
    \cup {r \in ProviderRecords : r.short = "FT" /\ r.home = 2}

Feeds ==
  {f \in [SyncIds -> ProviderRecords \cup {NotListed}] :
     \A id \in BLACKLISTED_MATCH_IDS : f[id] \in StuckRecords \cup {NotListed}}

\* the element of response.data.response for the id
fixtureOf(id) ==
  [id |-> id, date |-> DateOf[id], short |-> feed[id].short,
   home |-> feed[id].home, away |-> feed[id].away,
   ft_home |-> feed[id].ft_home, ft_away |-> feed[id].ft_away]

\* getFixtures({ date: today }): the envelope, data as a set of fixtures
getTodayMatches(answer) ==
  IF answer = "ok"
    THEN [success |-> TRUE,
          data |-> {fixtureOf(id) : id \in {i \in SyncIds : feed[i].listed}}]
    ELSE [success |-> FALSE, data |-> {}]

\* getFixtures({ live: 'all' }): the fixtures the provider holds as live
getLiveMatches(answer) ==
  IF answer = "ok"
    THEN [success |-> TRUE,
          data |-> {fixtureOf(id) :
                      id \in {i \in SyncIds : feed[i].listed
                                               /\ feed[i].short \in liveCodes}}]
    ELSE [success |-> FALSE, data |-> {}]

transformMatch(match) ==
  LET shortStatus == match.short
      status == IF shortStatus \in liveCodes THEN "live"
                ELSE IF shortStatus \in finishedCodes THEN "finished"
                ELSE IF shortStatus \in postponedCodes THEN "postponed"
                ELSE "scheduled"
      isLive == shortStatus \in liveCodes IN
  [id |-> match.id, date |-> match.date, status |-> status,
   status_short |-> shortStatus, is_live |-> isLive,
   home_score |-> match.home, away_score |-> match.away,
   ft_home |-> match.ft_home, ft_away |-> match.ft_away,
   last_updated |-> clock]

transformMatches(data) == {transformMatch(m) : m \in data}

\* an insert that ignores the conflict target
upsert_insert(table, rows) == table \cup rows

\* .upsert(rows, { onConflict: 'id', ignoreDuplicates: false })
upsert(table, rows) ==
  {r \in table : r.id \notin {n.id : n \in rows}} \cup rows

\* the operation called, what it returned, the store calls it attempted
Called(name, value, calls, thrown) ==
  /\ op' = name
  /\ returned' = value
  /\ storeCalls' = calls
  /\ threw' = thrown

\* a save that sends the upsert whatever is left of the batch
saveResult_noEmptyCheck(data, ok) ==
  IF supabase = "null" THEN "skipped"
  ELSE IF ok THEN "saved" ELSE "error"

\* what saveMatchesToDb returns for the batch: ok is the store's answer
saveResult(data, ok) ==
  LET filteredMatches == {m \in data : ~isBlacklisted(m.id)} IN
  IF supabase = "null" THEN "skipped"
  ELSE IF filteredMatches = {} THEN "empty"
  ELSE IF ok THEN "saved" ELSE "error"

\* saveMatchesToDb(matches) called by operation name
saveMatchesToDb(name, data, ok) ==
  LET filteredMatches == {m \in data : ~isBlacklisted(m.id)}
      transformedMatches == transformMatches(filteredMatches)
      value == saveResult(data, ok) IN
  /\ Called(name, value, IF value \in {"saved", "error"} THEN 1 ELSE 0, FALSE)
  /\ IF value = "saved"
       THEN /\ matches' = upsert(matches, transformedMatches)
            /\ syncWrites' = syncWrites \cup {r.id : r \in transformedMatches}
       ELSE UNCHANGED <<matches, syncWrites>>

syncTodayMatches(answer, ok) ==
  LET fetched == getTodayMatches(answer) IN
  /\ IF ~fetched.success
       THEN /\ Called("syncTodayMatches", "fetchFailed", 0, FALSE)
            /\ UNCHANGED <<matches, syncWrites>>
       ELSE saveMatchesToDb("syncTodayMatches", fetched.data, ok)
  /\ inSuccession' = (fetched.success
                        /\ saveResult(fetched.data, ok) \in {"saved", "empty", "skipped"})
  /\ repeat' = inSuccession
  /\ fixed' = [id \in SyncIds |-> ""]
  /\ lastFix' = NoFix
  /\ UNCHANGED <<overlapVars, supabase, gradingClient, feed, clock>>
  /\ UNCHANGED <<gradingVars, statsVars, pointsVars, schedVars>>

\* a test that lets the empty list through to the save
hasLive_always(data) == TRUE

\* result.data.length > 0
hasLive(data) == data # {}

syncLiveMatches(answer, ok) ==
  LET fetched == getLiveMatches(answer) IN
  /\ IF ~fetched.success
       THEN /\ Called("syncLiveMatches", "fetchFailed", 0, FALSE)
            /\ UNCHANGED <<matches, syncWrites>>
       ELSE IF ~hasLive(fetched.data)
         THEN /\ Called("syncLiveMatches", "noLive", 0, FALSE)
              /\ UNCHANGED <<matches, syncWrites>>
         ELSE saveMatchesToDb("syncLiveMatches", fetched.data, ok)
  /\ inSuccession' = FALSE
  /\ repeat' = FALSE
  /\ fixed' = [id \in SyncIds |-> ""]
  /\ lastFix' = NoFix
  /\ UNCHANGED <<overlapVars, supabase, gradingClient, feed, clock>>
  /\ UNCHANGED <<gradingVars, statsVars, pointsVars, schedVars>>

\* a test that never finds scores
hasScores_never(match) == FALSE

\* a test that is content with one score
hasScores_either(match) == match.home_score # NULL \/ match.away_score # NULL

hasScores(match) == match.home_score # NULL /\ match.away_score # NULL

\* an update that leaves is_live as it is
updateData_keepsLive(match) ==
  [match EXCEPT
     !.status = IF hasScores(match) THEN "finished" ELSE "postponed",
     !.status_short = IF hasScores(match) THEN "FT" ELSE "ABD",
     !.last_updated = clock,
     !.ft_home = IF hasScores(match) THEN match.home_score ELSE @,
     !.ft_away = IF hasScores(match) THEN match.away_score ELSE @]

\* the row .update(updateData) makes of the row read
updateData(match) ==
  [match EXCEPT
     !.status = IF hasScores(match) THEN "finished" ELSE "postponed",
     !.status_short = IF hasScores(match) THEN "FT" ELSE "ABD",
     !.is_live = FALSE,
     !.last_updated = clock,
     !.ft_home = IF hasScores(match) THEN match.home_score ELSE @,
     !.ft_away = IF hasScores(match) THEN match.away_score ELSE @]

\* a select without the date test
stuckMatches_anyDate(maxHours) ==
  {r \in matches : r.is_live \/ r.status = "live"}

\* .or('is_live.eq.true,status.eq.live').lt('date', cutoffISO)
stuckMatches(maxHours) ==
  {r \in matches : (r.is_live \/ r.status = "live") /\ r.date < clock - maxHours}

\* a report that leaves out the updates that affected no row
failedIds_errorsOnly(stuck, outcome) ==
  {r.id : r \in {m \in stuck : outcome[m.id] = "error"}}

\* failedIds: the update returned an error, or affected no row
failedIds(stuck, outcome) ==
  {r.id : r \in {m \in stuck : outcome[m.id] \in {"error", "none"}}}

\* fixStuckMatches(maxHours): selectOk is the store's answer to the select,
\* outcome[id] its answer to the update of the row of that id
fixStuckMatches(maxHours, selectOk, outcome) ==
  /\ IF supabase = "null"
       THEN /\ Called("fixStuckMatches", "notConfigured", 0, FALSE)
            /\ UNCHANGED matches
            /\ fixed' = [id \in SyncIds |-> ""]
            /\ lastFix' = [NoFix EXCEPT !.maxHours = maxHours]
       ELSE IF ~selectOk
         THEN /\ Called("fixStuckMatches", "error", 1, FALSE)
              /\ UNCHANGED matches
              /\ fixed' = [id \in SyncIds |-> ""]
              /\ lastFix' = [NoFix EXCEPT !.maxHours = maxHours]
         ELSE LET stuck == stuckMatches(maxHours)
                  done == {r \in stuck : outcome[r.id] = "ok"} IN
              /\ Called("fixStuckMatches",
                        IF stuck = {} THEN "fixed0" ELSE "fixed",
                        1 + Cardinality(stuck), FALSE)
              /\ matches' = (matches \ done) \cup {updateData(r) : r \in done}
              /\ lastFix' = [maxHours |-> maxHours,
                             found |-> {r.id : r \in stuck},
                             failedMatches |-> failedIds(stuck, outcome)]
              /\ fixed' = [id \in SyncIds |->
                             IF \E r \in done : r.id = id
                               THEN (CHOOSE r \in {updateData(d) : d \in done} :
                                       r.id = id).status_short
                               ELSE ""]
  /\ inSuccession' = FALSE
  /\ repeat' = FALSE
  /\ UNCHANGED <<overlapVars, supabase, gradingClient, feed, clock, syncWrites>>
  /\ UNCHANGED <<gradingVars, statsVars, pointsVars, schedVars>>

\* getMatchesFromDb(filters)
getMatchesFromDb(ok) ==
  /\ IF supabase = "null"
       THEN Called("getMatchesFromDb", "notConfigured", 0, FALSE)
       ELSE Called("getMatchesFromDb", IF ok THEN "data" ELSE "error", 1, FALSE)
  /\ inSuccession' = FALSE
  /\ repeat' = FALSE
  /\ fixed' = [id \in SyncIds |-> ""]
  /\ lastFix' = NoFix
  /\ UNCHANGED <<overlapVars, supabase, gradingClient, matches, feed, clock, syncWrites>>
  /\ UNCHANGED <<gradingVars, statsVars, pointsVars, schedVars>>

\* the status codes cleanupOldMatches deletes
cleanupCodes == {"FT", "AET", "PEN", "AWD", "WO", "CANC", "ABD", "PST"}

\* cleanupOldMatches(days): countOk and deleteOk are the store's answers
cleanupOldMatches(days, countOk, deleteOk) ==
  LET old == {r \in matches : r.date < clock - days * 24
                                /\ r.status_short \in cleanupCodes} IN
  /\ IF supabase = "null"
       THEN /\ Called("cleanupOldMatches", "notConfigured", 0, FALSE)
            /\ UNCHANGED matches
       ELSE IF ~countOk
         THEN /\ Called("cleanupOldMatches", "error", 1, FALSE)
              /\ UNCHANGED matches
         ELSE IF old = {}
           THEN /\ Called("cleanupOldMatches", "deleted0", 1, FALSE)
                /\ UNCHANGED matches
           ELSE IF ~deleteOk
             THEN /\ Called("cleanupOldMatches", "error", 2, FALSE)
                  /\ UNCHANGED matches
             ELSE /\ Called("cleanupOldMatches", "deleted", 2, FALSE)
                  /\ matches' = matches \ old
  /\ inSuccession' = FALSE
  /\ repeat' = FALSE
  /\ fixed' = [id \in SyncIds |-> ""]
  /\ lastFix' = NoFix
  /\ UNCHANGED <<overlapVars, supabase, gradingClient, feed, clock, syncWrites>>
  /\ UNCHANGED <<gradingVars, statsVars, pointsVars, schedVars>>

\* gradeAllPendingPredictions where the process has no store settings:
\* gradingService.js builds its own client from the unset settings, which
\* either throws when the module is loaded or yields a client whose calls fail
gradeAllPendingPredictionsNoStore ==
  /\ supabase = "null"
  /\ IF gradingClient = "throws"
       THEN Called("gradeAllPendingPredictions", "none", 0, TRUE)
       ELSE Called("gradeAllPendingPredictions", "success", 2, FALSE)
  /\ inSuccession' = FALSE
  /\ repeat' = FALSE
  /\ fixed' = [id \in SyncIds |-> ""]
  /\ lastFix' = NoFix
  /\ UNCHANGED <<overlapVars, supabase, gradingClient, matches, feed, clock, syncWrites>>
  /\ UNCHANGED <<gradingVars, statsVars, pointsVars, schedVars>>

\* gradeMatch(matchId) where the process has no store settings; finished: the
\* provider reports the match finished
gradeMatchNoStore(finished) ==
  /\ supabase = "null"
  /\ IF gradingClient = "throws"
       THEN Called("gradeMatch", "none", 0, TRUE)
       ELSE IF finished
         THEN Called("gradeMatch", "success", 2, FALSE)
         ELSE Called("gradeMatch", "notFinished", 0, FALSE)
  /\ inSuccession' = FALSE
  /\ repeat' = FALSE
  /\ fixed' = [id \in SyncIds |-> ""]
  /\ lastFix' = NoFix
  /\ UNCHANGED <<overlapVars, supabase, gradingClient, matches, feed, clock, syncWrites>>
  /\ UNCHANGED <<gradingVars, statsVars, pointsVars, schedVars>>

\* the provider's data for one match id change
ProviderChange(f) ==
  /\ \E id \in SyncIds : f[id] # feed[id] /\ \A i \in SyncIds \ {id} : f[i] = feed[i]
  /\ feed' = f
  /\ inSuccession' = FALSE
  /\ UNCHANGED <<overlapVars, supabase, gradingClient, matches, clock, op, returned,
                 storeCalls, threw, syncWrites, fixed, lastFix, repeat>>
  /\ UNCHANGED <<gradingVars, statsVars, pointsVars, schedVars>>

\* an hour passes
Hour ==
  /\ clock < MaxClock
  /\ clock' = clock + 1
  /\ UNCHANGED <<overlapVars, supabase, gradingClient, matches, feed, op, returned,
                 storeCalls, threw, syncWrites, fixed, lastFix, inSuccession,
                 repeat>>
  /\ UNCHANGED <<gradingVars, statsVars, pointsVars, schedVars>>

\* the row of the blacklisted match stored before the id was blacklisted
StuckRow ==
  [id |-> 1434975, date |-> DateOf[1434975], status |-> "live",
   status_short |-> "2H", is_live |-> TRUE, home_score |-> 1, away_score |-> 0,
   ft_home |-> NULL, ft_away |-> NULL, last_updated |-> 0]

InitSync ==
  /\ GradingIdle
  /\ StatsIdle
  /\ PointsIdle
  /\ SchedIdle
  /\ OverlapIdle
  /\ \/ supabase = "client" /\ gradingClient = "client" /\ matches \in {{}, {StuckRow}}
     \/ supabase = "null" /\ gradingClient \in {"throws", "client"} /\ matches = {}
  /\ feed = [id \in SyncIds |-> NotListed]
  /\ clock = 5
  /\ op = "none"
  /\ returned = "none"
  /\ storeCalls = 0
  /\ threw = FALSE
  /\ syncWrites = {}
  /\ fixed = [id \in SyncIds |-> ""]
  /\ lastFix = NoFix
  /\ inSuccession = FALSE
  /\ repeat = FALSE

NextSync ==
  \/ \E answer \in {"ok", "error"}, ok \in BOOLEAN : syncTodayMatches(answer, ok)
  \/ \E answer \in {"ok", "error"}, ok \in BOOLEAN : syncLiveMatches(answer, ok)
  \/ \E maxHours \in {1, 4}, selectOk \in BOOLEAN,
        outcome \in [SyncIds -> {"ok", "error", "none"}] :
       fixStuckMatches(maxHours, selectOk, outcome)
  \/ \E ok \in BOOLEAN : getMatchesFromDb(ok)
  \/ \E days \in {0, 30}, countOk \in BOOLEAN, deleteOk \in BOOLEAN :
       cleanupOldMatches(days, countOk, deleteOk)
  \/ gradeAllPendingPredictionsNoStore
  \/ \E finished \in BOOLEAN : gradeMatchNoStore(finished)
  \/ \E f \in Feeds : ProviderChange(f)
  \/ Hour

SpecSync == InitSync /\ [][NextSync]_vars

\* -------------------------- two predictions of one kind, user and match

\* prediction rows where one user holds two pending predictions of each kind
\* on one match: neither select of the grading calls assumes one row per user
DupWinnerRows == (1 :> [email |-> "ana", match_id |-> 101])
                   @@ (2 :> [email |-> "ana", match_id |-> 101])
DupScoreRows == (11 :> [email |-> "ana", match_id |-> 101])
                  @@ (12 :> [email |-> "ana", match_id |-> 101])
DupIds == DOMAIN DupWinnerRows \cup DOMAIN DupScoreRows

InitDup ==
  /\ \E pr \in [DOMAIN DupWinnerRows -> {"home", "draw"}],
        ph \in [DOMAIN DupScoreRows -> {0, 1}] :
       InitStoreOf(DupWinnerRows, DupScoreRows, pr, ph)
  /\ InitRunsOf(DupIds)
  /\ StatsIdle
  /\ PointsIdle
  /\ SchedIdle
  /\ SyncIdle

\* the runs of NextSeq over these rows
SpecDup == InitDup /\ [][NextSeq]_vars

\* ------------------------------------------- the cron job, tick after tick

\* a step of the run the grading cron job started, or the tick that starts it
CronStep ==
  \/ StartAll("cron")
  \/ ListWinner("cron")
  \/ ListScore("cron")
  \/ Fetch("cron")
  \/ SelectWinner("cron")
  \/ UpdateWinner("cron")
  \/ SelectScore("cron")
  \/ UpdateScore("cron")
  \/ ReadProfile("cron")
  \/ WriteProfile("cron")

NextCron ==
  \/ CronStep
  \/ CronSkip
  \/ \E matchId \in Matches : ProviderFinish(matchId)

\* the cron job keeps firing and every await of its run returns; the provider
\* comes to report each match finished
SpecCron ==
  /\ Init
  /\ [][NextCron]_vars
  /\ WF_vars(CronStep)
  /\ \A matchId \in Matches : WF_vars(ProviderFinish(matchId))

\* ------------------------------ grading beside a store row closed as stuck

\* the row the match sync stored for match 101 while the provider had it live
StaleRow ==
  [id |-> 101, date |-> 0, status |-> "live", status_short |-> "2H",
   is_live |-> TRUE, home_score |-> 1, away_score |-> 0,
   ft_home |-> NULL, ft_away |-> NULL, last_updated |-> 0]

InitStuck ==
  /\ \E pr \in [WinnerIds -> {"home", "draw"}], ph \in [ScoreIds -> {0}] :
       InitStore(pr, ph)
  /\ InitRuns
  /\ StatsIdle
  /\ PointsIdle
  /\ SchedIdle
  /\ OverlapIdle
  /\ supabase = "client"
  /\ gradingClient = "client"
  /\ matches = {StaleRow}
  /\ feed = [id \in SyncIds |-> NotListed]
  /\ clock = 5
  /\ op = "none"
  /\ returned = "none"
  /\ storeCalls = 0
  /\ threw = FALSE
  /\ syncWrites = {}
  /\ fixed = [id \in SyncIds |-> ""]
  /\ lastFix = NoFix
  /\ inSuccession = FALSE
  /\ repeat = FALSE

\* the grading cron job, the provider, and fixStuckMatches called on the store
NextStuck ==
  \/ CronStep
  \/ CronSkip
  \/ \E matchId \in Matches : ProviderFinish(matchId)
  \/ \E maxHours \in {1, 4}, selectOk \in BOOLEAN,
        outcome \in [Matches \cup SyncIds -> {"ok", "error"}] :
       fixStuckMatches(maxHours, selectOk, outcome)

SpecStuck == InitStuck /\ [][NextStuck]_vars

\* ------------------------------- a daily sync and a live sync that overlap

\* the operation behind the sync run
syncName(r) == IF r = "daily" THEN "syncTodayMatches" ELSE "syncLiveMatches"

\* syncTodayMatches / syncLiveMatches up to the await of the provider call: the
\* provider answers with what it holds now; the run goes on to the save, or
\* returns where the call failed or the live list is empty
awaitFetch(r, answer) ==
  /\ sy_pc[r] = "idle"
  /\ LET fetched == IF r = "daily" THEN getTodayMatches(answer)
                    ELSE getLiveMatches(answer)
         saves == fetched.success /\ (r = "daily" \/ hasLive(fetched.data)) IN
     /\ sy_data' = [sy_data EXCEPT ![r] = fetched.data]
     /\ sy_pc' = [sy_pc EXCEPT ![r] = IF saves THEN "fetched" ELSE "done"]
     /\ sy_newest' = IF fetched.success THEN r ELSE sy_newest
  /\ UNCHANGED <<supabase, gradingClient, matches, feed, clock, op, returned,
                 storeCalls, threw, syncWrites, fixed, lastFix, inSuccession,
                 repeat>>
  /\ UNCHANGED <<gradingVars, statsVars, pointsVars, schedVars>>

\* the rest of the run: saveMatchesToDb on the data fetched, and the return
awaitSave(r, ok) ==
  /\ sy_pc[r] = "fetched"
  /\ saveMatchesToDb(syncName(r), sy_data[r], ok)
  /\ sy_pc' = [sy_pc EXCEPT ![r] =
                 IF saveResult(sy_data[r], ok) = "saved" THEN "saved" ELSE "done"]
  /\ inSuccession' = FALSE
  /\ repeat' = FALSE
  /\ fixed' = [id \in SyncIds |-> ""]
  /\ lastFix' = NoFix
  /\ UNCHANGED <<sy_data, sy_newest, supabase, gradingClient, feed, clock>>
  /\ UNCHANGED <<gradingVars, statsVars, pointsVars, schedVars>>

\* what the provider may hold while the two runs overlap
OverlapFeeds == {f \in Feeds : \A id \in BLACKLISTED_MATCH_IDS : f[id] = NotListed}

InitOverlap ==
  /\ GradingIdle
  /\ StatsIdle
  /\ PointsIdle
  /\ SchedIdle
  /\ OverlapIdle
  /\ supabase = "client"
  /\ gradingClient = "client"
  /\ matches = {}
  /\ feed \in OverlapFeeds
  /\ clock = 5
  /\ op = "none"
  /\ returned = "none"
  /\ storeCalls = 0
  /\ threw = FALSE
  /\ syncWrites = {}
  /\ fixed = [id \in SyncIds |-> ""]
  /\ lastFix = NoFix
  /\ inSuccession = FALSE
  /\ repeat = FALSE

NextOverlap ==
  \/ \E r \in SyncRuns, answer \in {"ok", "error"} : awaitFetch(r, answer)
  \/ \E r \in SyncRuns, ok \in BOOLEAN : awaitSave(r, ok)
  \/ \E f \in OverlapFeeds : ProviderChange(f)

SpecOverlap == InitOverlap /\ [][NextOverlap]_vars

\* ================================================================== claims

rowStatus(p) ==
  IF p \in WinnerIds THEN winner_predictions[p].status ELSE score_predictions[p].status

rowMatch(p) ==
  IF p \in WinnerIds THEN WinnerRows[p].match_id ELSE ScoreRows[p].match_id

InFlight(r) == pc[r] \notin {"idle", "done"}

\* C1: a run that starts when a row is already graded never writes that row
\* again and never puts that row's result into a profile.
C1_GradedRowsLeftAlone ==
  \A r \in Runs :
    /\ wrote[r] \cap gradedAtStart[r] = {}
    /\ credited[r] \cap gradedAtStart[r] = {}
    /\ todo[r] \cap gradedAtStart[r] = {}

\* a later run, started after the run that graded some rows had ended, has
\* graded and credited another row and has ended too
C1_Witness ==
  \E r \in Runs :
    /\ \A q \in Runs : ~InFlight(q)
    /\ ret[r] = "success"
    /\ gradedAtStart[r] # {}
    /\ wrote[r] # {}
    /\ credited[r] = wrote[r]
    /\ fails = 0

\* C2 (as claimed): whatever the interleaving of the cron run and a manual
\* run, every row is written as graded at most once and its result is put
\* into the owner's profile at most once.
C2_ExactlyOnce ==
  \A p \in RowIds : gradeCount[p] <= 1 /\ creditCount[p] <= 1

\* C3 (as claimed): over runs made one after the other, the profile of a user
\* is updated at most once for a given match.
C3_OncePerUserAndMatch ==
  \A u \in Users, m \in Matches : statsCount[u][m] <= 1

\* C4 (as claimed): a row whose own update failed, or whose user's profile
\* read or profile update failed, is pending when the run has ended.
C4_FailureLeavesPending ==
  \A r \in Runs :
    pc[r] = "done" => \A p \in lost[r] : rowStatus(p) = "pending"

\* C7 (as claimed): in every step total_experience, season_points,
\* correct_predictions, total_predictions and best_streak of every profile do
\* not decrease, and best_streak stays at least current_streak.
C7_Monotone ==
  [][\A u \in Users :
       /\ profiles'[u].total_experience >= profiles[u].total_experience
       /\ profiles'[u].season_points >= profiles[u].season_points
       /\ profiles'[u].correct_predictions >= profiles[u].correct_predictions
       /\ profiles'[u].total_predictions >= profiles[u].total_predictions
       /\ profiles'[u].best_streak >= profiles[u].best_streak
       /\ profiles'[u].best_streak >= profiles'[u].current_streak]_vars

\* C10: a run holds a match result only for a match the provider reported as
\* FT, AET or PEN in that run, and it neither grades a row nor credits a row of
\* a match for which the provider's answer was anything else.
C10_NullUnlessFinished ==
  \A r \in Runs :
    /\ ~matchResult[r].isNull =>
         /\ matchResult[r].status \in {"FT", "AET", "PEN"}
         /\ cur[r] \notin notReady[r]
    /\ \A p \in wrote[r] \cup credited[r] : rowMatch(p) \notin notReady[r]
    /\ \A p \in todo[r] : rowMatch(p) \notin notReady[r]

\* a gradeAllPendingPredictions run has ended that skipped match 102 (not
\* finished) and graded match 101; the row of match 102 is still pending
C10_Witness ==
  \E r \in Runs :
    /\ pc[r] = "done"
    /\ entry[r] = "all"
    /\ notReady[r] = {102}
    /\ api[102].short = "2H"
    /\ wrote[r] = {1, 11}
    /\ score_predictions[12].status = "pending"
    /\ profiles["budi"] = ZeroProfile

\* C5: a call that succeeds sets current_streak to the previous streak + 1
\* when at least one of the predictions it is given is correct and to 0
\* otherwise, adds the number of predictions it is given to total_predictions
\* and the number of correct ones to correct_predictions; a call that fails
\* leaves the row as it was.
C5_StreakPerMatch ==
  LET given == {x \in {st_winner, st_score} : x.present}
      right == {x \in given : x.isCorrect}
      nGiven == (IF st_winner.present THEN 1 ELSE 0) + (IF st_score.present THEN 1 ELSE 0)
      nRight == (IF st_winner.present /\ st_winner.isCorrect THEN 1 ELSE 0)
                  + (IF st_score.present /\ st_score.isCorrect THEN 1 ELSE 0)
      before(x) == IF x = NULL THEN 0 ELSE x IN
  /\ st_outcome = "ok" =>
       /\ nGiven \in {1, 2}
       /\ st_profile.current_streak =
            IF right # {} THEN before(st_prev.current_streak) + 1 ELSE 0
       /\ st_profile.total_predictions = before(st_prev.total_predictions) + nGiven
       /\ st_profile.correct_predictions = before(st_prev.correct_predictions) + nRight
  /\ st_outcome \in {"fetchError", "updateError"} => st_profile = st_prev

\* streak 2, one correct winner prediction and one incorrect score prediction
\* of the same match: the streak is 3, two predictions and one correct counted
C5_Witness ==
  /\ st_outcome = "ok"
  /\ st_prev.current_streak = 2
  /\ st_winner.present /\ st_winner.isCorrect
  /\ st_score.present /\ ~st_score.isCorrect
  /\ st_profile.current_streak = 3
  /\ st_profile.total_predictions = st_prev.total_predictions + 2
  /\ st_profile.correct_predictions = st_prev.correct_predictions + 1

\* C6: the bonus a successful call adds to total_experience and to
\* season_points, on top of the points of the predictions, is 5 when the
\* streak becomes 3, 10 when it becomes 5, 25 when it becomes 10 and 0 in
\* every other call; no milestone is paid twice while the streak is not reset.
C6_BonusAtMilestoneOnly ==
  LET before(x) == IF x = NULL THEN 0 ELSE x
      base == st_winner.points + st_score.points
      bonus == st_profile.total_experience - before(st_prev.total_experience) - base
      now == st_profile.current_streak
      was == before(st_prev.current_streak) IN
  /\ st_outcome = "ok" =>
       /\ bonus = IF now = 3 /\ was < 3 THEN 5
                  ELSE IF now = 5 /\ was < 5 THEN 10
                  ELSE IF now = 10 /\ was < 10 THEN 25
                  ELSE 0
       /\ st_profile.season_points - before(st_prev.season_points) = base + bonus
  /\ \A k \in {3, 5, 10} : st_awards[k] <= 1

\* the streak went past 10 without a reset: each milestone was paid once and
\* the call that took the streak from 10 to 11 paid nothing
C6_Witness ==
  /\ st_outcome = "ok"
  /\ st_prev.current_streak = 10
  /\ st_profile.current_streak = 11
  /\ st_awards = [k \in {3, 5, 10} |-> 1]
  /\ st_profile.total_experience
       = st_prev.total_experience + st_winner.points + st_score.points

\* the league name contains, letter case ignored, the big-league name
containsIgnoringCase(name, big) ==
  \E i \in 0..(Len(name) - Len(big)) :
    \A j \in 1..Len(big) : lowerChar(name[i + j]) = lowerChar(big[j])

bigLeague(name) ==
  \E k \in 1..Len(BIG_LEAGUES) : containsIgnoringCase(name, BIG_LEAGUES[k])

\* C8: a graded row has points_earned 0 when is_correct is false; when it is
\* true, 15 (big league) or 10 for a winner prediction and 25 (big league) or 20
\* for a score prediction, a league being big iff its name contains one of
\* the big-league names, letter case ignored.
C8_PointsTable ==
  pt_phase = "graded" =>
    /\ pt_winner.points_earned =
         IF ~pt_winner.is_correct THEN 0
         ELSE IF bigLeague(pt_fixture.league) THEN 15 ELSE 10
    /\ pt_score.points_earned =
         IF ~pt_score.is_correct THEN 0
         ELSE IF bigLeague(pt_fixture.league) THEN 25 ELSE 20

\* both predictions correct in "la liga 2", which contains "La Liga" but for
\* the letter case: 15 and 25 points
C8_Witness ==
  /\ pt_phase = "graded"
  /\ pt_fixture.league = LgLaLigaTwo
  /\ pt_winner.is_correct /\ pt_winner.points_earned = 15
  /\ pt_score.is_correct /\ pt_score.points_earned = 25

\* C9: the actual winner is home when the home side scored more, away when
\* the away side scored more, draw iff the scores are equal; a winner
\* prediction is correct iff it names the actual winner, a score prediction
\* iff both of its scores equal the actual scores.
C9_Correctness ==
  pt_phase = "graded" =>
    LET h == pt_fixture.home
        a == pt_fixture.away IN
    /\ h > a => pt_winner.actual_result = "home"
    /\ a > h => pt_winner.actual_result = "away"
    /\ h = a <=> pt_winner.actual_result = "draw"
    /\ pt_winner.is_correct <=> pt_winner.predicted_result = pt_winner.actual_result
    /\ pt_score.actual_home_score = h /\ pt_score.actual_away_score = a
    /\ pt_score.is_correct <=>
         (pt_score.predicted_home_score = h /\ pt_score.predicted_away_score = a)

\* a match decided on penalties with equal goals: the draw prediction is
\* correct; the score prediction with only the home score right is not
C9_Witness ==
  /\ pt_phase = "graded"
  /\ pt_fixture.short = "PEN"
  /\ pt_fixture.home = pt_fixture.away
  /\ pt_winner.predicted_result = "draw" /\ pt_winner.is_correct
  /\ pt_score.predicted_home_score = pt_fixture.home
  /\ pt_score.predicted_away_score # pt_fixture.away
  /\ ~pt_score.is_correct /\ pt_score.points_earned = 0

\* C11: for each job type that carries a flag (live sync, daily sync, grading,
\* cleanup) at most one cron-started run is in flight, and the flag is set
\* exactly while it is: a tick that finds the flag set makes no engine call.
C11_SingleFlight ==
  \A j \in Jobs :
    /\ sc_inFlight[j] <= 1
    /\ isRunning(j) <=> sc_inFlight[j] = 1
    /\ sc_dropped[j] /\ sc_inFlight[j] = 0 => sc_last[j] # "none"

\* a tick of the live sync was dropped while its run is in flight, and a run
\* of another job type is in flight at the same time
C11_Witness ==
  /\ sc_dropped["liveSync"]
  /\ sc_inFlight["liveSync"] = 1
  /\ sc_calls["liveSync"] = 1
  /\ sc_inFlight["grading"] = 1

\* the rows of the matches table that hold the id
rowsOf(table, id) == {r \in table : r.id = id}

\* C12: no sync path (syncTodayMatches, syncLiveMatches, both through
\* saveMatchesToDb) ever writes a row of the matches table for a blacklisted
\* id, whatever the provider returns: the only rows of such an id are the one
\* stored before and what fixStuckMatches made of it.
C12_BlacklistNeverWritten ==
  /\ syncWrites \cap BLACKLISTED_MATCH_IDS = {}
  /\ \A id \in BLACKLISTED_MATCH_IDS :
       rowsOf(matches, id) \subseteq
         {StuckRow} \cup {[updateData(StuckRow) EXCEPT !.last_updated = t] :
                            t \in 5..(MaxClock + 1)}

\* a sync saved a batch in which the provider listed the blacklisted match
C12_Witness ==
  /\ op = "syncTodayMatches"
  /\ returned = "saved"
  /\ inSuccession
  /\ \E id \in BLACKLISTED_MATCH_IDS : feed[id].listed
  /\ 7 \in syncWrites

\* C13: fixStuckMatches, where it writes a stuck live row whose home_score and
\* away_score are both non-null, leaves the row finished, FT, not live, with
\* ft_home = home_score and ft_away = away_score.
C13_StuckWithScoresFinished ==
  [][op' = "fixStuckMatches" =>
       \A r \in matches :
         (/\ fixed'[r.id] # ""
          /\ r.is_live \/ r.status = "live"
          /\ r.home_score # NULL
          /\ r.away_score # NULL)
         => /\ rowsOf(matches', r.id) # {}
            /\ \A n \in rowsOf(matches', r.id) :
                 /\ n.status = "finished"
                 /\ n.status_short = "FT"
                 /\ n.is_live = FALSE
                 /\ n.ft_home = n.home_score
                 /\ n.ft_away = n.away_score
                 /\ n.home_score = r.home_score
                 /\ n.away_score = r.away_score]_vars

\* fixStuckMatches has just finished the 1-0 row of match 7
C13_Witness ==
  /\ op = "fixStuckMatches"
  /\ fixed[7] = "FT"
  /\ \E n \in rowsOf(matches, 7) :
       n.status = "finished" /\ n.ft_home = 1 /\ n.ft_away = 0

\* C14: fixStuckMatches, where it writes a stuck live row in which home_score
\* or away_score is null, leaves the row postponed and not live and changes
\* none of home_score, away_score, ft_home, ft_away.
C14_StuckWithoutScoresPostponed ==
  [][op' = "fixStuckMatches" =>
       \A r \in matches :
         (/\ fixed'[r.id] # ""
          /\ r.is_live \/ r.status = "live"
          /\ r.home_score = NULL \/ r.away_score = NULL)
         => /\ rowsOf(matches', r.id) # {}
            /\ \A n \in rowsOf(matches', r.id) :
                 /\ n.status = "postponed"
                 /\ n.is_live = FALSE
                 /\ n.home_score = r.home_score
                 /\ n.away_score = r.away_score
                 /\ n.ft_home = r.ft_home
                 /\ n.ft_away = r.ft_away]_vars

\* fixStuckMatches has just abandoned the row of match 7 that has a home score
\* and no away score
C14_Witness ==
  /\ op = "fixStuckMatches"
  /\ fixed[7] = "ABD"
  /\ \E n \in rowsOf(matches, 7) :
       n.status = "postponed" /\ n.home_score = 1 /\ n.away_score = NULL

\* C15: a stored match that is postponed never changes status again, and a
\* stored match that is finished changes status only through fixStuckMatches.
C15_TerminalAbsorbing ==
  [][\A r \in matches : \A n \in rowsOf(matches', r.id) :
       /\ r.status = "postponed" => n.status = "postponed"
       /\ r.status = "finished" /\ op' # "fixStuckMatches"
            => n.status = "finished"]_vars

\* C16: in every row of the matches table is_live is true iff status is
\* 'live', and a live row's status_short is a live code.
C16_LiveConsistent ==
  \A r \in matches :
    /\ r.is_live <=> r.status = "live"
    /\ r.status = "live"
         => r.status_short \in {"1H", "2H", "HT", "ET", "P", "BT", "LIVE"}

\* the table holds a row a sync wrote as live and a row fixStuckMatches closed
C16_Witness ==
  /\ \E r \in matches : r.is_live /\ r.id \in syncWrites
  /\ \E r \in matches : r.id \in BLACKLISTED_MATCH_IDS /\ r.status = "finished"

\* C17: every row of the matches table that is finished has non-null
\* home_score, away_score, ft_home and ft_away.
C17_FinishedHasScores ==
  \A r \in matches :
    r.status = "finished"
      => /\ r.home_score # NULL
         /\ r.away_score # NULL
         /\ r.ft_home # NULL
         /\ r.ft_away # NULL

\* a row without its last_updated column
stripped(r) ==
  [id |-> r.id, date |-> r.date, status |-> r.status,
   status_short |-> r.status_short, is_live |-> r.is_live,
   home_score |-> r.home_score, away_score |-> r.away_score,
   ft_home |-> r.ft_home, ft_away |-> r.ft_away]

\* C18: a syncTodayMatches that follows a syncTodayMatches on the same
\* upstream data leaves the matches table with one row per id and with every
\* column but last_updated as the first call left it.
C18_SyncTwiceSame ==
  [][op' = "syncTodayMatches" /\ repeat' =>
       /\ {stripped(r) : r \in matches'} = {stripped(r) : r \in matches}
       /\ \A id \in SyncIds : Cardinality(rowsOf(matches', id)) <= 1
       /\ \A id \in SyncIds : Cardinality(rowsOf(matches', id))
                                = Cardinality(rowsOf(matches, id))]_vars

\* the second of two syncs in succession has written match 7 again, an hour
\* after the first
C18_Witness ==
  /\ op = "syncTodayMatches"
  /\ repeat
  /\ returned = "saved"
  /\ \E r \in rowsOf(matches, 7) : r.last_updated = clock /\ clock > 5

\* C19: where no store is configured, each operation that needs the store
\* (saveMatchesToDb, getMatchesFromDb, fixStuckMatches, cleanupOldMatches,
\* gradeAllPendingPredictions, gradeMatch) returns a not-configured or skipped
\* result, does not throw and attempts no store call.
C19_NotConfigured ==
  (/\ supabase = "null"
   /\ op \in {"syncTodayMatches", "syncLiveMatches", "getMatchesFromDb",
              "fixStuckMatches", "cleanupOldMatches",
              "gradeAllPendingPredictions", "gradeMatch"}
   /\ returned \notin {"fetchFailed", "noLive"})
  => /\ returned \in {"notConfigured", "skipped"}
     /\ ~threw
     /\ storeCalls = 0

\* C20: with the cron job firing again and again, the provider coming to
\* report each match finished for good and provider and store calls coming
\* to succeed, every pending prediction is eventually graded; until then it
\* stays pending, so its match stays among the ids the next run lists.
C20_EventuallyGraded ==
  /\ \A p \in RowIds : (rowStatus(p) = "pending") ~> (rowStatus(p) = "graded")
  /\ [](\A p \in RowIds :
          gradeCount[p] = 0
            => /\ rowStatus(p) = "pending"
               /\ rowMatch(p) \in pendingMatchIds(winner_predictions)
                                    \cup pendingMatchIds(score_predictions))

\* a later run of the cron job has graded the row of match 102 that was
\* still pending when an earlier run graded the rows of match 101, after a
\* failure was injected
C20_Witness ==
  /\ pc["cron"] = "done"
  /\ fails = MaxFails
  /\ {1, 11} \subseteq gradedAtStart["cron"]
  /\ 12 \in wrote["cron"]
  /\ \A p \in RowIds : rowStatus(p) = "graded"

\* C21: fixStuckMatches(maxHours) changes only rows that are live and whose
\* date is earlier than now - maxHours; every other row of the matches table
\* is in the table after the call as it was before, and the call adds no row.
C21_OnlyStuckRowsChange ==
  [][op' = "fixStuckMatches" =>
       /\ \A r \in matches :
            ~(r.is_live /\ r.date < clock - lastFix'.maxHours) => r \in matches'
       /\ \A id \in SyncIds :
            Cardinality(rowsOf(matches', id)) = Cardinality(rowsOf(matches, id))]_vars

\* fixStuckMatches(4) has closed the old live row of the blacklisted match and
\* left the live row of match 7, which started less than four hours ago
C21_Witness ==
  /\ op = "fixStuckMatches"
  /\ lastFix.maxHours = 4
  /\ fixed[1434975] = "FT"
  /\ \E r \in rowsOf(matches, 7) : r.is_live /\ r.date >= clock - 4

\* C22: a fixStuckMatches call in which some updates fail and others succeed
\* returns success; every stuck row it found is reported in exactly one of
\* fixedMatches and failedMatches; every row reported as failed is still
\* matched by the stuck-match query.
C22_PartialFailureReported ==
  op = "fixStuckMatches" /\ lastFix.found # {}
    => LET fixedMatches == {id \in SyncIds : fixed[id] # ""} IN
       /\ returned = "fixed"
       /\ fixedMatches \cap lastFix.failedMatches = {}
       /\ fixedMatches \cup lastFix.failedMatches = lastFix.found
       /\ \A id \in lastFix.failedMatches :
            \E r \in stuckMatches(lastFix.maxHours) : r.id = id

\* of two stuck rows one was closed and the update of the other failed
C22_Witness ==
  /\ op = "fixStuckMatches"
  /\ fixed[1434975] = "FT"
  /\ lastFix.failedMatches = {7}
  /\ lastFix.found = {7, 1434975}

\* C24: saveMatchesToDb, with a store configured, called with a batch that is
\* empty or blacklisted throughout returns success with count 0, sends no
\* upsert and leaves the matches table as it is (a step of an operation
\* leaves the provider's data and the clock as they are).
C24_BlacklistedBatchNoOp ==
  [][(/\ op' = "syncTodayMatches"
      /\ feed' = feed /\ clock' = clock
      /\ returned' # "fetchFailed"
      /\ supabase = "client"
      /\ \A id \in SyncIds : feed[id].listed => id \in BLACKLISTED_MATCH_IDS)
     => /\ returned' = "empty"
        /\ storeCalls' = 0
        /\ matches' = matches]_vars

\* syncTodayMatches handed saveMatchesToDb a batch that held the blacklisted
\* match alone, with a row of match 7 in the table
C24_Witness ==
  /\ op = "syncTodayMatches"
  /\ returned = "empty"
  /\ feed[1434975].listed
  /\ ~feed[7].listed
  /\ rowsOf(matches, 7) # {}

\* C25: syncLiveMatches sends no write and leaves the matches table as it is
\* when the provider reports failure or returns no live match; on failure it
\* returns the provider's failure result, and on an empty list it does not
\* call saveMatchesToDb.
C25_NoLiveNoWrite ==
  [][(/\ op' = "syncLiveMatches"
      /\ feed' = feed /\ clock' = clock
      /\ \/ returned' = "fetchFailed"
         \/ \A id \in SyncIds : ~(feed[id].listed /\ feed[id].short \in liveCodes))
     => /\ returned' \in {"fetchFailed", "noLive"}
        /\ storeCalls' = 0
        /\ matches' = matches
        /\ syncWrites' = syncWrites]_vars

\* syncLiveMatches found no live match at the provider while the table holds a
\* live row of match 7
C25_Witness ==
  /\ op = "syncLiveMatches"
  /\ returned = "noLive"
  /\ \E r \in rowsOf(matches, 7) : r.is_live

\* C30: the flag of a job type is set exactly while a run its cron callback
\* started is in flight; the run's end clears it however the engine call
\* ended, so a tick is dropped only while a run is in flight, and, every
\* engine call ending, a set flag is always cleared again.
C30_FlagFollowsRun ==
  /\ [](\A j \in Jobs : isRunning(j) <=> sc_inFlight[j] > 0)
  /\ [][\A j \in Jobs :
          /\ sc_inFlight'[j] < sc_inFlight[j] => ~isRunning(j)'
          /\ sc_dropped'[j] /\ ~sc_dropped[j] => sc_inFlight[j] > 0]_vars
  /\ \A j \in Jobs : []<>(~isRunning(j))

\* a run of the cleanup job ended in a throw and the job's next tick started
\* a run
C30_Witness ==
  /\ sc_last["cleanup"] = "threw"
  /\ sc_calls["cleanup"] = 2
  /\ isCleanupRunning
  /\ sc_inFlight["cleanup"] = 1

\* the rows of the table on match m
matchRows(table, m) == {p \in DOMAIN table : table[p].match_id = m}

\* the rows of the table on the match of run r whose update failed in the run
failedRows(table, r) ==
  {p \in matchRows(table, cur[r]) \cap lost[r] : table[p].status = "pending"}

\* the rows of the table on the match of run r that the run graded
doneRows(table, r) == matchRows(table, cur[r]) \cap wrote[r]

\* what one grading call of run r left behind once its loop is over
CallContract(table, results, graded, correct, r) ==
  /\ failedRows(table, r) # {}
       => matchRows(table, cur[r]) \ gradedAtStart[r]
            = failedRows(table, r) \cup doneRows(table, r)
  /\ \A p \in doneRows(table, r) : table[p].status = "graded"
  /\ graded = Cardinality(doneRows(table, r))
  /\ correct = Cardinality({p \in doneRows(table, r) : table[p].is_correct})
  /\ \A u \in Users : results[u].present => results[u].src \in doneRows(table, r)

\* C23: within one call of gradeWinnerPredictions or gradeScorePredictions a
\* failed update of one row does not end the loop: every other row of that
\* kind that was pending on the match is graded in the same call, and the row
\* whose update failed stays pending and is counted neither in the returned
\* graded and correct counts nor in userResults
C23_FailedUpdateSkipsOnlyThatRow ==
  \A r \in Runs :
    /\ pc[r] \in {"selectScore", "updateScore", "readProfile", "writeProfile"}
         => CallContract(winner_predictions, winnerResults[r],
                         gradedCount[r].winner, correctCount[r].winner, r)
    /\ pc[r] \in {"readProfile", "writeProfile"}
         => CallContract(score_predictions, scoreResults[r],
                         gradedCount[r].score, correctCount[r].score, r)

\* a call is over in which the update of one winner row failed and the other
\* winner row of the match was graded
C23_Witness ==
  \E r \in Runs :
    /\ pc[r] = "selectScore"
    /\ failedRows(winner_predictions, r) # {}
    /\ doneRows(winner_predictions, r) # {}
    /\ gradedCount[r].winner = 1

\* row p of the table carries the grading of the provider's result for its match
gradedRight(table, kind, p) ==
  LET result == getMatchResult(getMatchById("ok", table[p].match_id))
      isCorrect == IF kind = "winner" THEN winnerIsCorrect(table[p], result)
                   ELSE scoreIsCorrect(table[p], result) IN
  /\ ~result.isNull
  /\ table[p].status = "graded"
  /\ table[p].is_correct = isCorrect
  /\ table[p].points_earned = calculatePoints(kind, isCorrect, result.leagueName)

\* the owner of prediction row p
rowOwner(p) ==
  IF p \in DOMAIN winner_predictions THEN winner_predictions[p].email
  ELSE score_predictions[p].email

\* what a run of either entry point does for a match it grades: the rows it
\* wrote carry the grading of the provider's result
GradesAsProviderSays(r) ==
  /\ \A p \in wrote[r] \cap DOMAIN winner_predictions :
       gradedRight(winner_predictions, "winner", p)
  /\ \A p \in wrote[r] \cap DOMAIN score_predictions :
       gradedRight(score_predictions, "score", p)

\* a step of run r that updates a profile updates the profile of one user, who
\* had no update in the run for the match yet, by updateUserStatsPerMatch's row
OneStatsUpdatePerUser(r) ==
  credited'[r] # credited[r] =>
    \E u \in Users :
      /\ \A p \in credited[r] : rowOwner(p) = u => p \notin matchRows(winner_predictions, cur[r])
                                                      \cup matchRows(score_predictions, cur[r])
      /\ \A p \in credited'[r] \ credited[r] : rowOwner(p) = u
      /\ profiles' = [profiles EXCEPT ![u] =
                        newProfile(profiles[u], winnerResults[r][u], scoreResults[r][u])]

\* C26: gradeMatch(matchId) for a match the provider does not report finished
\* (or cannot return) returns success false and changes no prediction row and
\* no profile row; for a finished match it returns success and grades the
\* rows and updates each user's profile once, as gradeAllPendingPredictions
\* does for that match
C26_GradeMatch ==
  /\ [](\A r \in Runs :
          /\ entry[r] = "match" /\ pc[r] = "done"
               => /\ ret[r] = "error" <=> notReady[r] # {}
                  /\ ret[r] = "error" => wrote[r] = {} /\ credited[r] = {}
                  /\ ret[r] # "error" => ret[r] = "success"
          /\ GradesAsProviderSays(r))
  /\ [][\A r \in Runs :
          /\ entry[r] = "match" /\ ret'[r] = "error" /\ pc[r] = "fetch"
               => storeVars' = storeVars
          /\ OneStatsUpdatePerUser(r)]_vars

\* the manual runs have graded the rows of match 101, which the provider
\* reports finished, and updated the profile once; then a gradeMatch for
\* match 102, which the provider still reports live, has returned the error
C26_Witness ==
  /\ pc["cron"] = "idle"
  /\ entry["manual"] = "match"
  /\ pc["manual"] = "done"
  /\ ret["manual"] = "error"
  /\ notReady["manual"] = {102}
  /\ gradedAtStart["manual"] = DupIds
  /\ statsCount["ana"][101] = 1
  /\ api[102].short \notin finishedStatuses
  /\ fails = 0

\* the graded rows of user u, of both tables
gradedOf(u) == {p \in gradedRows : rowOwner(p) = u}

\* points_earned of prediction row p
pointsOf(p) ==
  IF p \in DOMAIN winner_predictions THEN winner_predictions[p].points_earned
  ELSE score_predictions[p].points_earned

\* the sum of points_earned over the rows
RECURSIVE sumPoints(_)
sumPoints(rows) ==
  IF rows = {} THEN 0
  ELSE LET p == CHOOSE q \in rows : TRUE IN pointsOf(p) + sumPoints(rows \ {p})

\* C27: conservation of points: once the grading runs made so far are over
\* (here: with no store or provider call failing), each user's total_experience
\* and season_points have grown by the points_earned of the user's graded
\* predictions plus the streak bonuses awarded, and total_predictions by the
\* number of the user's graded predictions, also where the user holds more
\* than one pending prediction of one kind on a match
C27_PointsConserved ==
  (fails = 0 /\ \A r \in Runs : pc[r] \in {"idle", "done"}) =>
    \A u \in Users :
      /\ profiles[u].total_experience = sumPoints(gradedOf(u)) + bonuses[u]
      /\ profiles[u].season_points = sumPoints(gradedOf(u)) + bonuses[u]
      /\ profiles[u].total_predictions = Cardinality(gradedOf(u))

\* C28: grading follows the provider's answer alone, never the matches table:
\* a run grades a prediction only if the provider reported its match finished
\* (FT, AET or PEN) to that run, and the predictions of a match that
\* fixStuckMatches closed as finished in the store stay pending while the
\* provider still reports the match live
C28_GradingFollowsProvider ==
  /\ \A p \in RowIds :
       rowStatus(p) = "graded" => api[rowMatch(p)].short \in finishedStatuses
  /\ \A r \in Runs : \A p \in wrote[r] : rowMatch(p) \notin notReady[r]
  /\ \A m \in matches :
       m.status = "finished" /\ api[m.id].short \notin finishedStatuses
         => \A p \in RowIds : rowMatch(p) = m.id => rowStatus(p) = "pending"

\* fixStuckMatches has closed the row of match 101 as finished, the provider
\* still reports the match live, and a grading run that asked the provider
\* about it has ended with the predictions on the match pending
C28_Witness ==
  /\ \E m \in matches : m.id = 101 /\ m.status = "finished" /\ m.status_short = "FT"
  /\ op = "fixStuckMatches"
  /\ api[101].short = "2H"
  /\ pc["cron"] = "done"
  /\ 101 \in notReady["cron"]
  /\ rowStatus(1) = "pending" /\ rowStatus(11) = "pending"
  /\ rowStatus(12) = "graded"

\* the fixture of match id in the data of sync run r
fetchedBy(r, id) == CHOOSE m \in sy_data[r] : m.id = id

\* C29: a syncTodayMatches and a syncLiveMatches overlapped, both fetched the
\* same match id and both saved: the stored row of the match is the transform
\* of the snapshot that was fetched last, so the older snapshot does not
\* overwrite the newer one
C29_NewestSnapshotWins ==
  (\A r \in SyncRuns : sy_pc[r] = "saved") =>
    \A id \in SyncIds :
      (\A r \in SyncRuns : \E m \in sy_data[r] : m.id = id) /\ ~isBlacklisted(id)
        => \E row \in matches :
             /\ row.id = id
             /\ stripped(row) = stripped(transformMatch(fetchedBy(sy_newest, id)))

====
